---- MODULE Spec2Model ----
(***************************************************************************)
(* A model of ob::OrderBook<MaxPrice, MaxOrders> (include/order_book.hpp)  *)
(* with its price levels (include/price_level.hpp), its order records      *)
(* (include/order.hpp) and its fixed-block pool (include/memory_pool.hpp). *)
(*                                                                         *)
(* Pointers are modelled as integers: a pool slot s is the address of      *)
(* storage_[s], Sentinel(p) is the address of levels_[p].sentinel and NULL *)
(* is nullptr.  Every public call (add, cancel, match) is one atomic       *)
(* action, the engine being single-threaded and synchronous.               *)
(***************************************************************************)
EXTENDS Integers, Sequences, FiniteSets, TLC

\* ------------------------------------------------------------------ bounds
\* template parameters of the modelled instance, and the ranges of the inputs
MaxPrice == 2
MaxOrders == 2
MaxId == 2
MaxQty == 2
\* further instantiations, OrderBook<MaxPrice, n> with n up to MapSlots, of
\* which the order index alone is modelled, and the ids it is driven with
MapSlots == 3
MaxMapId == 5

NULL == -1

Slots == 0 .. (MaxOrders - 1)
Prices == 0 .. MaxPrice
Ids == 0 .. MaxId
MapIds == 0 .. MaxMapId
Sides == {"Buy", "Sell"}
OrdTypes == {"Limit", "Market", "IOC"}

\* the inputs the public calls are driven with: the valid ranges and one
\* value out of range on each side
PriceInputs == (-1) .. (MaxPrice + 1)
QtyInputs == (-1) .. MaxQty

NO_BID == -1
Min(a, b) == IF a <= b THEN a ELSE b

VARIABLES
    levels_,        \* std::array<PriceLevel, MaxPrice + 1>
    best_bid_,      \* Price
    best_ask_,      \* Price
    total_orders_,  \* size_t
    pool_,          \* MemPool<Order, MaxOrders>: storage_, free_head_, alloc_cnt_
    order_map_,     \* std::array<Order*, MaxOrders>
    map_            \* order_map_ of OrderBook<MaxPrice, n>, n <= MapSlots, each entry
                    \* shown as the id of the order it points to

vars == <<levels_, best_bid_, best_ask_, total_orders_, pool_, order_map_, map_>>

\* the members of the OrderBook object, as one value
Book ==
    [levels_ |-> levels_, best_bid_ |-> best_bid_, best_ask_ |-> best_ask_,
     total_orders_ |-> total_orders_, pool_ |-> pool_, order_map_ |-> order_map_]

\* ------------------------------------------------------------ price level
Sentinel(p) == MaxOrders + p
IsSentinel(n) == n >= MaxOrders
LevelOf(n) == n - MaxOrders

\* PriceLevel(): the sentinel points to itself, no orders, no quantity
EmptyLevel(p) ==
    [sentinel |-> [prev |-> Sentinel(p), next |-> Sentinel(p)],
     order_cnt |-> 0, total_qty |-> 0]

\* n->next and n->prev, n an order of the pool or a sentinel
NextOf(b, n) ==
    IF IsSentinel(n) THEN b.levels_[LevelOf(n)].sentinel.next
    ELSE b.pool_.storage_[n].next

PrevOf(b, n) ==
    IF IsSentinel(n) THEN b.levels_[LevelOf(n)].sentinel.prev
    ELSE b.pool_.storage_[n].prev

SetNext(b, n, v) ==
    IF IsSentinel(n) THEN [b EXCEPT !.levels_[LevelOf(n)].sentinel.next = v]
    ELSE [b EXCEPT !.pool_.storage_[n].next = v]

SetPrev(b, n, v) ==
    IF IsSentinel(n) THEN [b EXCEPT !.levels_[LevelOf(n)].sentinel.prev = v]
    ELSE [b EXCEPT !.pool_.storage_[n].prev = v]

\* PriceLevel::push_back(o) on levels_[p]
push_back(b, p, o) ==
    LET tail == b.levels_[p].sentinel.prev
        b1 == SetPrev(b, o, tail)
        b2 == SetNext(b1, o, Sentinel(p))
        b3 == SetNext(b2, tail, o)
        b4 == [b3 EXCEPT !.levels_[p].sentinel.prev = o]
        b5 == [b4 EXCEPT !.levels_[p].order_cnt = @ + 1]
    IN [b5 EXCEPT !.levels_[p].total_qty = @ + b5.pool_.storage_[o].qty]

\* remove without the assignment o->next->prev = o->prev
remove_one_link(b, p, o) ==
    LET b1 == SetNext(b, PrevOf(b, o), NextOf(b, o))
        b3 == [b1 EXCEPT !.levels_[p].order_cnt = @ - 1]
        b4 == [b3 EXCEPT !.levels_[p].total_qty = @ - b3.pool_.storage_[o].qty]
        b5 == SetPrev(b4, o, NULL)
    IN SetNext(b5, o, NULL)

\* remove subtracting the order's original quantity from total_qty
remove_orig_qty(b, p, o) ==
    LET b1 == SetNext(b, PrevOf(b, o), NextOf(b, o))
        b2 == SetPrev(b1, NextOf(b1, o), PrevOf(b1, o))
        b3 == [b2 EXCEPT !.levels_[p].order_cnt = @ - 1]
        b4 == [b3 EXCEPT !.levels_[p].total_qty = @ - b3.pool_.storage_[o].orig_qty]
        b5 == SetPrev(b4, o, NULL)
    IN SetNext(b5, o, NULL)

\* PriceLevel::remove(o) on levels_[p]
remove(b, p, o) ==
    LET b1 == SetNext(b, PrevOf(b, o), NextOf(b, o))
        b2 == SetPrev(b1, NextOf(b1, o), PrevOf(b1, o))
        b3 == [b2 EXCEPT !.levels_[p].order_cnt = @ - 1]
        b4 == [b3 EXCEPT !.levels_[p].total_qty = @ - b3.pool_.storage_[o].qty]
        b5 == SetPrev(b4, o, NULL)
    IN SetNext(b5, o, NULL)

\* reduce_qty with the subtraction left out
reduce_qty_none(b, p, amount) == b

\* PriceLevel::reduce_qty(amount) on levels_[p]
reduce_qty(b, p, amount) ==
    [b EXCEPT !.levels_[p].total_qty = @ - amount]

\* front returning the last order of the level instead of the first
front_tail(b, p) == b.levels_[p].sentinel.prev

\* PriceLevel::front(), empty()
front(b, p) == b.levels_[p].sentinel.next
empty(b, p) == b.levels_[p].order_cnt = 0

\* ------------------------------------------------------------------- pool
\* a free block holds only the link of the free list
FreeNode(nxt) == [next |-> nxt]

\* MemPool(): the free list runs through the slots in index order
InitPool ==
    [storage_ |-> [s \in Slots |-> FreeNode(IF s + 1 < MaxOrders THEN s + 1 ELSE NULL)],
     free_head_ |-> IF MaxOrders > 0 THEN 0 ELSE NULL,
     alloc_cnt_ |-> 0]

\* alloc keeping the last free block back: it fails one block early
alloc_keep_last(b) ==
    IF b.pool_.free_head_ = NULL THEN [book |-> b, p |-> NULL]
    ELSE IF b.pool_.storage_[b.pool_.free_head_].next = NULL THEN [book |-> b, p |-> NULL]
    ELSE [book |-> [b EXCEPT !.pool_.free_head_ = b.pool_.storage_[b.pool_.free_head_].next,
                             !.pool_.alloc_cnt_ = @ + 1],
          p |-> b.pool_.free_head_]

\* MemPool::alloc(): the book with the block taken, and the block (or NULL)
alloc(b) ==
    IF b.pool_.free_head_ = NULL THEN [book |-> b, p |-> NULL]
    ELSE LET node == b.pool_.free_head_
         IN [book |-> [b EXCEPT !.pool_.free_head_ = b.pool_.storage_[node].next,
                                !.pool_.alloc_cnt_ = @ + 1],
             p |-> node]

\* dealloc counting the block as released without linking it in the free list
dealloc_lost(b, p) ==
    IF p = NULL THEN b ELSE [b EXCEPT !.pool_.alloc_cnt_ = @ - 1]

\* MemPool::dealloc(p)
dealloc(b, p) ==
    IF p = NULL THEN b
    ELSE [b EXCEPT !.pool_.storage_[p] = FreeNode(b.pool_.free_head_),
                   !.pool_.free_head_ = p,
                   !.pool_.alloc_cnt_ = @ - 1]

\* Order{id, px, q, s, t, ts}
NewOrder(id, px, q, s, t, ts) ==
    [prev |-> NULL, next |-> NULL, id |-> id, price |-> px, qty |-> q,
     orig_qty |-> q, ts |-> ts, side |-> s, type |-> t]

\* fill lowering orig_qty together with qty
fill_both(b, o, amount) ==
    [b EXCEPT !.pool_.storage_[o].qty = @ - amount,
              !.pool_.storage_[o].orig_qty = @ - amount]

\* filled holding for every order that was filled at all
filled_always(b, o) == TRUE

\* Order::fill(amount), Order::filled()
fill(b, o, amount) == [b EXCEPT !.pool_.storage_[o].qty = @ - amount]
filled(b, o) == b.pool_.storage_[o].qty <= 0

\* ------------------------------------------------------------ order index
slot(id) == id % MaxOrders

RECURSIVE lookup_probe(_, _, _, _)
lookup_probe(b, id, idx, start) ==
    IF idx = start THEN NULL
    ELSE LET o == b.order_map_[idx]
         IN IF o = NULL THEN NULL
            ELSE IF b.pool_.storage_[o].id = id THEN o
            ELSE lookup_probe(b, id, (idx + 1) % MaxOrders, start)

\* lookup without the probe: an entry kept away from its home slot is missed
lookup_no_probe(b, id) ==
    IF b.order_map_[slot(id)] # NULL /\ b.pool_.storage_[b.order_map_[slot(id)]].id = id
    THEN b.order_map_[slot(id)]
    ELSE NULL

\* lookup returning the entry of the home slot without comparing ids
lookup_direct(b, id) == b.order_map_[slot(id)]

\* OrderBook::lookup(id)
lookup(b, id) ==
    LET idx == slot(id)
        o == b.order_map_[idx]
    IN IF o # NULL /\ b.pool_.storage_[o].id = id THEN o
       ELSE lookup_probe(b, id, (idx + 1) % MaxOrders, idx)

RECURSIVE insert_probe(_, _, _, _)
insert_probe(b, o, idx, start) ==
    IF b.order_map_[idx] # NULL
    THEN IF b.pool_.storage_[b.order_map_[idx]].id = b.pool_.storage_[o].id
         THEN [book |-> b, ok |-> FALSE]
         ELSE IF (idx + 1) % MaxOrders = start
              THEN [book |-> b, ok |-> FALSE]
              ELSE insert_probe(b, o, (idx + 1) % MaxOrders, start)
    ELSE [book |-> [b EXCEPT !.order_map_[idx] = o], ok |-> TRUE]

\* OrderBook::insert_map(o)
insert_map(b, o) ==
    insert_probe(b, o, slot(b.pool_.storage_[o].id), slot(b.pool_.storage_[o].id))

\* the rehash loop of remove_map, from index next on
RECURSIVE rehash(_, _)
rehash(b, next) ==
    IF b.order_map_[next] = NULL THEN b
    ELSE LET to_rehash == b.order_map_[next]
             b1 == [b EXCEPT !.order_map_[next] = NULL]
             b2 == insert_map(b1, to_rehash).book
         IN rehash(b2, (next + 1) % MaxOrders)

RECURSIVE remove_probe(_, _, _)
remove_probe(b, id, idx) ==
    IF b.order_map_[idx] = NULL THEN b
    ELSE IF b.pool_.storage_[b.order_map_[idx]].id = id
         THEN rehash([b EXCEPT !.order_map_[idx] = NULL], (idx + 1) % MaxOrders)
         ELSE remove_probe(b, id, (idx + 1) % MaxOrders)

\* OrderBook::remove_map(id)
remove_map(b, id) == remove_probe(b, id, slot(id))

\* ------------------------------------------- order index, other capacities
\* slot, lookup, insert_map and remove_map as instantiated with another
\* MaxOrders, on a table t of that many entries (MaxOrders is the size of
\* the std::array), an entry being the id read through the pointer
\* (order_map_[idx]->id) or NULL; lookup yields the index of the entry found
MapIndices == 0 .. (MapSlots - 1)
EmptyMap == [i \in MapIndices |-> NULL]

\* the capacities the index is instantiated with, and the empty index of each
MapSizes == 1 .. MapSlots
EmptyMapOf(n) == [i \in 0 .. (n - 1) |-> NULL]

\* std::array::size() of the table
MapSize(t) == Cardinality(DOMAIN t)

map_slot(t, id) == id % MapSize(t)

RECURSIVE map_lookup_probe(_, _, _, _)
map_lookup_probe(t, id, idx, start) ==
    IF idx = start THEN NULL
    ELSE IF t[idx] = NULL THEN NULL
    ELSE IF t[idx] = id THEN idx
    ELSE map_lookup_probe(t, id, (idx + 1) % MapSize(t), start)

map_lookup(t, id) ==
    IF t[map_slot(t, id)] # NULL /\ t[map_slot(t, id)] = id THEN map_slot(t, id)
    ELSE map_lookup_probe(t, id, (map_slot(t, id) + 1) % MapSize(t), map_slot(t, id))

\* the probe of insert_map going backward: idx - 1 for idx + 1
RECURSIVE map_insert_probe_back(_, _, _, _)
map_insert_probe_back(t, id, idx, start) ==
    IF t[idx] # NULL
    THEN IF t[idx] = id
         THEN [map |-> t, ok |-> FALSE]
         ELSE IF (idx + MapSize(t) - 1) % MapSize(t) = start
              THEN [map |-> t, ok |-> FALSE]
              ELSE map_insert_probe_back(t, id, (idx + MapSize(t) - 1) % MapSize(t), start)
    ELSE [map |-> [t EXCEPT ![idx] = id], ok |-> TRUE]

RECURSIVE map_insert_probe(_, _, _, _)
map_insert_probe(t, id, idx, start) ==
    IF t[idx] # NULL
    THEN IF t[idx] = id
         THEN [map |-> t, ok |-> FALSE]
         ELSE IF (idx + 1) % MapSize(t) = start
              THEN [map |-> t, ok |-> FALSE]
              ELSE map_insert_probe(t, id, (idx + 1) % MapSize(t), start)
    ELSE [map |-> [t EXCEPT ![idx] = id], ok |-> TRUE]

map_insert(t, id) == map_insert_probe(t, id, map_slot(t, id), map_slot(t, id))

\* the loop of remove_map without the re-insertion: the entries after the
\* vacated one stay where they are
map_rehash_none(t, next) == t

\* the loop of remove_map with an if for the while: only the entry next to
\* the vacated one is re-inserted
map_rehash_once(t, next) ==
    IF t[next] = NULL THEN t
    ELSE map_insert([t EXCEPT ![next] = NULL], t[next]).map

\* the loop of remove_map moving every entry after the vacated slot one slot
\* back, whatever its natural slot, until a vacant slot or one round is made
RECURSIVE map_shift_back(_, _, _)
map_shift_back(t, next, rounds) ==
    IF t[next] = NULL \/ rounds = 0 THEN t
    ELSE map_shift_back([t EXCEPT ![(next + MapSize(t) - 1) % MapSize(t)] = t[next],
                                  ![next] = NULL],
                        (next + 1) % MapSize(t), rounds - 1)

map_rehash_shift(t, next) == map_shift_back(t, next, MapSize(t) - 1)

RECURSIVE map_rehash(_, _)
map_rehash(t, next) ==
    IF t[next] = NULL THEN t
    ELSE map_rehash(map_insert([t EXCEPT ![next] = NULL], t[next]).map,
                    (next + 1) % MapSize(t))

RECURSIVE map_remove_probe(_, _, _)
map_remove_probe(t, id, idx) ==
    IF t[idx] = NULL THEN t
    ELSE IF t[idx] = id
         THEN map_rehash([t EXCEPT ![idx] = NULL], (idx + 1) % MapSize(t))
         ELSE map_remove_probe(t, id, (idx + 1) % MapSize(t))

map_remove(t, id) == map_remove_probe(t, id, map_slot(t, id))

\* the ids of the entries of t
MapEntries(t) == {t[i] : i \in DOMAIN t} \ {NULL}

\* ---------------------------------------------------------- best tracking
\* update_best_bid giving up at the first empty level: no bid is reported
\* without a look at the levels below
update_best_bid_reset(b) ==
    IF b.best_bid_ >= 0 /\ empty(b, b.best_bid_)
    THEN [b EXCEPT !.best_bid_ = NO_BID]
    ELSE b

RECURSIVE update_best_bid(_)
update_best_bid(b) ==
    IF b.best_bid_ >= 0 /\ empty(b, b.best_bid_)
    THEN update_best_bid([b EXCEPT !.best_bid_ = @ - 1])
    ELSE b

\* update_best_ask with its bound one level too far, the level past the end
\* of the array being taken as empty
RECURSIVE update_best_ask_far(_)
update_best_ask_far(b) ==
    IF b.best_ask_ <= MaxPrice + 1 /\ (b.best_ask_ > MaxPrice \/ empty(b, b.best_ask_))
    THEN update_best_ask_far([b EXCEPT !.best_ask_ = @ + 1])
    ELSE b

\* update_best_ask with an if for the while: one step of the scan
update_best_ask_once(b) ==
    IF b.best_ask_ <= MaxPrice /\ empty(b, b.best_ask_)
    THEN [b EXCEPT !.best_ask_ = @ + 1]
    ELSE b

RECURSIVE update_best_ask(_)
update_best_ask(b) ==
    IF b.best_ask_ <= MaxPrice /\ empty(b, b.best_ask_)
    THEN update_best_ask([b EXCEPT !.best_ask_ = @ + 1])
    ELSE b

\* remove_from_book without the decrement of total_orders_
remove_from_book_nocount(b, o) ==
    dealloc(remove_map(remove(b, b.pool_.storage_[o].price, o), b.pool_.storage_[o].id), o)

\* remove_from_book without the release of the block
remove_from_book_leak(b, o) ==
    [remove_map(remove(b, b.pool_.storage_[o].price, o), b.pool_.storage_[o].id)
        EXCEPT !.total_orders_ = @ - 1]

\* OrderBook::remove_from_book(o)
remove_from_book(b, o) ==
    LET b1 == remove(b, b.pool_.storage_[o].price, o)
        b2 == dealloc(remove_map(b1, b1.pool_.storage_[o].id), o)
    IN [b2 EXCEPT !.total_orders_ = @ - 1]

\* --------------------------------------------------------------- matching
\* A matching loop runs on m = [book, qty, fills]: the object, the local
\* variable qty (the quantity still to fill) and the executions made so far.
\* fills is a record of what the loop did; the code keeps none.

\* struct Fill: one execution against the head of a level
Fill(passive_id, qty, price) == [passive_id |-> passive_id, qty |-> qty, price |-> price]

Matching(b, qty) == [book |-> b, qty |-> qty, fills |-> <<>>]

\* one iteration of the loop of match_level on levels_[p]
match_step(m, p) ==
    LET o == front(m.book, p)
        f == Min(m.qty, m.book.pool_.storage_[o].qty)
        b2 == reduce_qty(fill(m.book, o, f), p, f)
    IN [book |-> IF filled(b2, o) THEN remove_from_book(b2, o) ELSE b2,
        qty |-> m.qty - f,
        fills |-> Append(m.fills, Fill(m.book.pool_.storage_[o].id, f, p))]

\* OrderBook::match_level(level, qty), level = levels_[p]
RECURSIVE match_level(_, _)
match_level(m, p) ==
    IF m.qty > 0 /\ ~empty(m.book, p)
    THEN match_level(match_step(m, p), p)
    ELSE m

\* if (level.empty()) update_best_ask(), level = levels_[p]
advance_ask(m, p) ==
    IF empty(m.book, p) THEN [m EXCEPT !.book = update_best_ask(m.book)] ELSE m

\* if (level.empty()) update_best_bid(), level = levels_[p]
advance_bid(m, p) ==
    IF empty(m.book, p) THEN [m EXCEPT !.book = update_best_bid(m.book)] ELSE m

\* OrderBook::match_internal(aggressor, qty, limit)
RECURSIVE match_internal(_, _, _)
match_internal(m, aggressor, limit) ==
    IF aggressor = "Buy"
    THEN IF m.qty > 0 /\ m.book.best_ask_ <= limit /\ m.book.best_ask_ <= MaxPrice
         THEN match_internal(
                  advance_ask(match_level(m, m.book.best_ask_), m.book.best_ask_),
                  aggressor, limit)
         ELSE m
    ELSE IF m.qty > 0 /\ m.book.best_bid_ >= limit /\ m.book.best_bid_ >= 0
         THEN match_internal(
                  advance_bid(match_level(m, m.book.best_bid_), m.book.best_bid_),
                  aggressor, limit)
         ELSE m

\* match sweeping the aggressor's own side of the book
match_own_side(b, aggressor, qty) ==
    match_internal(Matching(b, qty), IF aggressor = "Buy" THEN "Sell" ELSE "Buy",
                   IF aggressor = "Buy" THEN 0 ELSE MaxPrice)

\* match taking the quantity without its sign
match_abs(b, aggressor, qty) ==
    match_internal(Matching(b, IF qty < 0 THEN 0 - qty ELSE qty), aggressor,
                   IF aggressor = "Buy" THEN MaxPrice ELSE 0)

\* match with the limits of the two sides exchanged
match_swapped(b, aggressor, qty) ==
    match_internal(Matching(b, qty), aggressor, IF aggressor = "Buy" THEN 0 ELSE MaxPrice)

\* match returning the quantity filled for the quantity left
match_filled(b, aggressor, qty) ==
    [match_internal(Matching(b, qty), aggressor,
                    IF aggressor = "Buy" THEN MaxPrice ELSE 0)
        EXCEPT !.qty = qty - @]

\* OrderBook::match(aggressor, qty): m.qty is the value returned
match(b, aggressor, qty) ==
    match_internal(Matching(b, qty), aggressor, IF aggressor = "Buy" THEN MaxPrice ELSE 0)

\* -------------------------------------------------------------------- add
\* the update of the best without the comparison: the last price added wins
update_best_on_add_always(b, side, px) ==
    IF side = "Buy" THEN [b EXCEPT !.best_bid_ = px] ELSE [b EXCEPT !.best_ask_ = px]

\* the update of the best for the first order of a side only: a later order
\* at a better price leaves the best where it is
update_best_on_add_first(b, side, px) ==
    IF side = "Buy"
    THEN IF b.best_bid_ < 0 THEN [b EXCEPT !.best_bid_ = px] ELSE b
    ELSE IF b.best_ask_ > MaxPrice THEN [b EXCEPT !.best_ask_ = px] ELSE b

\* if (px > best_bid_) best_bid_ = px, resp. if (px < best_ask_) best_ask_ = px
update_best_on_add(b, side, px) ==
    IF side = "Buy"
    THEN IF px > b.best_bid_ THEN [b EXCEPT !.best_bid_ = px] ELSE b
    ELSE IF px < b.best_ask_ THEN [b EXCEPT !.best_ask_ = px] ELSE b

\* the tail of add for an order that is to rest with quantity remaining:
\* allocate, construct, index, link, count, update the best
rest(b, id, side, px, remaining, type, ts) ==
    LET a == alloc(b)
        o == a.p
        ins == insert_map([a.book EXCEPT !.pool_.storage_[o] =
                               NewOrder(id, px, remaining, side, type, ts)], o)
    IN IF o = NULL THEN [book |-> a.book, ret |-> "PoolExhausted"]
       ELSE IF ~ins.ok THEN [book |-> dealloc(ins.book, o), ret |-> "DuplicateId"]
       ELSE [book |-> update_best_on_add(
                          [push_back(ins.book, px, o) EXCEPT !.total_orders_ = @ + 1],
                          side, px),
             ret |-> "Ok"]

\* the crossing step with strict comparisons: an order priced at the opposing
\* best does not match
cross_strict(b, side, px, qty) ==
    IF side = "Buy"
    THEN IF px > b.best_ask_ THEN match_internal(Matching(b, qty), side, px)
         ELSE Matching(b, qty)
    ELSE IF px < b.best_bid_ THEN match_internal(Matching(b, qty), side, px)
         ELSE Matching(b, qty)

\* the crossing step sweeping without the order's limit, as match does
cross_market(b, side, px, qty) ==
    IF side = "Buy"
    THEN IF px >= b.best_ask_ THEN match_internal(Matching(b, qty), side, MaxPrice)
         ELSE Matching(b, qty)
    ELSE IF px <= b.best_bid_ THEN match_internal(Matching(b, qty), side, 0)
         ELSE Matching(b, qty)

\* the crossing step for Buy orders only: a Sell never matches on entry
cross_buy_only(b, side, px, qty) ==
    IF side = "Buy" /\ px >= b.best_ask_
    THEN match_internal(Matching(b, qty), side, px)
    ELSE Matching(b, qty)

\* the crossing step of add
cross(b, side, px, qty) ==
    IF side = "Buy"
    THEN IF px >= b.best_ask_ THEN match_internal(Matching(b, qty), side, px)
         ELSE Matching(b, qty)
    ELSE IF px <= b.best_bid_ THEN match_internal(Matching(b, qty), side, px)
         ELSE Matching(b, qty)

\* the resting decision letting a remainder of 0 rest
settle_zero_rests(m, id, side, px, type, ts) ==
    IF type = "IOC" \/ type = "Market" THEN [book |-> m.book, ret |-> "Ok"]
    ELSE IF m.qty < 0 THEN [book |-> m.book, ret |-> "Ok"]
    ELSE rest(m.book, id, side, px, m.qty, type, ts)

\* the resting decision treating Market as an order that may rest
settle_ioc_only(m, id, side, px, type, ts) ==
    IF type = "IOC" THEN [book |-> m.book, ret |-> "Ok"]
    ELSE IF m.qty <= 0 THEN [book |-> m.book, ret |-> "Ok"]
    ELSE rest(m.book, id, side, px, m.qty, type, ts)

\* the resting decision letting an IOC order rest as a Limit order does
settle_market_only(m, id, side, px, type, ts) ==
    IF type = "Market" THEN [book |-> m.book, ret |-> "Ok"]
    ELSE IF m.qty <= 0 THEN [book |-> m.book, ret |-> "Ok"]
    ELSE rest(m.book, id, side, px, m.qty, type, ts)

\* the resting decision refusing every order once the pool has no free block
settle_full_first(m, id, side, px, type, ts) ==
    IF m.book.pool_.free_head_ = NULL THEN [book |-> m.book, ret |-> "PoolExhausted"]
    ELSE IF type = "IOC" \/ type = "Market" THEN [book |-> m.book, ret |-> "Ok"]
    ELSE IF m.qty <= 0 THEN [book |-> m.book, ret |-> "Ok"]
    ELSE rest(m.book, id, side, px, m.qty, type, ts)

\* the resting decision taken after the order was constructed and indexed:
\* what is left of an IOC or Market order keeps its block and its index entry
settle_ioc_indexed(m, id, side, px, type, ts) ==
    IF m.qty <= 0 THEN [book |-> m.book, ret |-> "Ok"]
    ELSE IF type = "IOC" \/ type = "Market"
         THEN IF alloc(m.book).p = NULL THEN [book |-> m.book, ret |-> "Ok"]
              ELSE [book |-> insert_map(
                                 [alloc(m.book).book EXCEPT !.pool_.storage_[alloc(m.book).p] =
                                      NewOrder(id, px, m.qty, side, type, ts)],
                                 alloc(m.book).p).book,
                    ret |-> "Ok"]
    ELSE rest(m.book, id, side, px, m.qty, type, ts)

\* add after its crossing step left m: the resting decision
settle(m, id, side, px, type, ts) ==
    IF type = "IOC" \/ type = "Market" THEN [book |-> m.book, ret |-> "Ok"]
    ELSE IF m.qty <= 0 THEN [book |-> m.book, ret |-> "Ok"]
    ELSE rest(m.book, id, side, px, m.qty, type, ts)

\* add checking the price before the quantity
add_price_first(b, id, side, px, qty, type, ts) ==
    IF lookup(b, id) # NULL THEN [book |-> b, ret |-> "DuplicateId"]
    ELSE IF px < 0 \/ px > MaxPrice THEN [book |-> b, ret |-> "InvalidPrice"]
    ELSE IF qty <= 0 THEN [book |-> b, ret |-> "InvalidQty"]
    ELSE settle(cross(b, side, px, qty), id, side, px, type, ts)

\* add rejecting the two boundary prices as well
add_open_bounds(b, id, side, px, qty, type, ts) ==
    IF lookup(b, id) # NULL THEN [book |-> b, ret |-> "DuplicateId"]
    ELSE IF qty <= 0 THEN [book |-> b, ret |-> "InvalidQty"]
    ELSE IF px <= 0 \/ px >= MaxPrice THEN [book |-> b, ret |-> "InvalidPrice"]
    ELSE settle(cross(b, side, px, qty), id, side, px, type, ts)

\* add refusing a bad price only after a crossing step at the nearest price
\* of the book
add_price_late(b, id, side, px, qty, type, ts) ==
    IF lookup(b, id) # NULL THEN [book |-> b, ret |-> "DuplicateId"]
    ELSE IF qty <= 0 THEN [book |-> b, ret |-> "InvalidQty"]
    ELSE IF px < 0 \/ px > MaxPrice
         THEN [book |-> cross(b, side, IF px < 0 THEN 0 ELSE MaxPrice, qty).book,
               ret |-> "InvalidPrice"]
    ELSE settle(cross(b, side, px, qty), id, side, px, type, ts)

\* add without its first check, leaving duplicates to insert_map
add_no_dup_check(b, id, side, px, qty, type, ts) ==
    IF qty <= 0 THEN [book |-> b, ret |-> "InvalidQty"]
    ELSE IF px < 0 \/ px > MaxPrice THEN [book |-> b, ret |-> "InvalidPrice"]
    ELSE settle(cross(b, side, px, qty), id, side, px, type, ts)

\* OrderBook::add(id, side, px, qty, type, ts): the book it leaves and the
\* AddResult it returns
add(b, id, side, px, qty, type, ts) ==
    IF lookup(b, id) # NULL THEN [book |-> b, ret |-> "DuplicateId"]
    ELSE IF qty <= 0 THEN [book |-> b, ret |-> "InvalidQty"]
    ELSE IF px < 0 \/ px > MaxPrice THEN [book |-> b, ret |-> "InvalidPrice"]
    ELSE settle(cross(b, side, px, qty), id, side, px, type, ts)

\* cancel leaving the best prices as they are
cancel_found_no_update(b, o, px, side) == remove_from_book(b, o)

\* the removal and the update of the best of cancel, o = lookup(id) found
cancel_found(b, o, px, side) ==
    LET b1 == remove_from_book(b, o)
    IN IF side = "Buy"
       THEN IF px = b1.best_bid_ THEN update_best_bid(b1) ELSE b1
       ELSE IF px = b1.best_ask_ THEN update_best_ask(b1) ELSE b1

\* OrderBook::cancel(id)
cancel(b, id) ==
    LET o == lookup(b, id)
    IN IF o = NULL THEN [book |-> b, ret |-> FALSE]
       ELSE [book |-> cancel_found(b, o, b.pool_.storage_[o].price,
                                   b.pool_.storage_[o].side),
             ret |-> TRUE]

\* -------------------------------------------------------------- accessors
bid(b) == b.best_bid_
ask(b) == b.best_ask_
has_bid(b) == b.best_bid_ >= 0
has_ask(b) == b.best_ask_ <= MaxPrice
crossed(b) == has_bid(b) /\ has_ask(b) /\ b.best_bid_ >= b.best_ask_
order_count(b) == b.total_orders_
pool_used(b) == b.pool_.alloc_cnt_
get_order(b, id) == lookup(b, id)
\* bid_qty reading the number of orders of the level for their quantity
bid_qty_count(b) == IF b.best_bid_ < 0 THEN 0 ELSE b.levels_[b.best_bid_].order_cnt

bid_qty(b) == IF b.best_bid_ < 0 THEN 0 ELSE b.levels_[b.best_bid_].total_qty
ask_qty(b) == IF b.best_ask_ > MaxPrice THEN 0 ELSE b.levels_[b.best_ask_].total_qty

\* ---------------------------------------------------------- state machine
\* OrderBook(): empty levels, no best prices, an unused pool, an empty index
InitBook ==
    [levels_ |-> [p \in Prices |-> EmptyLevel(p)],
     best_bid_ |-> NO_BID,
     best_ask_ |-> MaxPrice + 1,
     total_orders_ |-> 0,
     pool_ |-> InitPool,
     order_map_ |-> [s \in Slots |-> NULL]]

Init ==
    /\ levels_ = InitBook.levels_
    /\ best_bid_ = InitBook.best_bid_
    /\ best_ask_ = InitBook.best_ask_
    /\ total_orders_ = InitBook.total_orders_
    /\ pool_ = InitBook.pool_
    /\ order_map_ = InitBook.order_map_
    /\ map_ = EmptyMap

Add ==
    \E id \in Ids, side \in Sides, px \in PriceInputs, qty \in QtyInputs, type \in OrdTypes :
        \E r \in {add(Book, id, side, px, qty, type, 0)} :
            /\ levels_' = r.book.levels_
            /\ best_bid_' = r.book.best_bid_
            /\ best_ask_' = r.book.best_ask_
            /\ total_orders_' = r.book.total_orders_
            /\ pool_' = r.book.pool_
            /\ order_map_' = r.book.order_map_
            /\ UNCHANGED map_

Cancel ==
    \E id \in Ids :
        \E r \in {cancel(Book, id)} :
            /\ levels_' = r.book.levels_
            /\ best_bid_' = r.book.best_bid_
            /\ best_ask_' = r.book.best_ask_
            /\ total_orders_' = r.book.total_orders_
            /\ pool_' = r.book.pool_
            /\ order_map_' = r.book.order_map_
            /\ UNCHANGED map_

Match ==
    \E side \in Sides, qty \in QtyInputs :
        \E m \in {match(Book, side, qty)} :
            /\ levels_' = m.book.levels_
            /\ best_bid_' = m.book.best_bid_
            /\ best_ask_' = m.book.best_ask_
            /\ total_orders_' = m.book.total_orders_
            /\ pool_' = m.book.pool_
            /\ order_map_' = m.book.order_map_
            /\ UNCHANGED map_

Next == Add \/ Cancel \/ Match

Spec == Init /\ [][Next]_vars

\* the index of the wider instantiation: an id enters as add lets it (not
\* found by lookup, a block of the pool free) and leaves as cancel and the
\* matching loop let it (the order is live)
MapInsert ==
    \E id \in MapIds :
        /\ map_lookup(map_, id) = NULL
        /\ Cardinality(MapEntries(map_)) < MapSize(map_)
        /\ map_' = map_insert(map_, id).map
        /\ UNCHANGED <<levels_, best_bid_, best_ask_, total_orders_, pool_, order_map_>>

MapRemove ==
    \E id \in MapEntries(map_) :
        /\ map_' = map_remove(map_, id)
        /\ UNCHANGED <<levels_, best_bid_, best_ask_, total_orders_, pool_, order_map_>>

\* the two instantiations are run one at a time: the book moves while the
\* wider index is empty, the wider index while the book is as constructed
NextBoth ==
    \/ map_ = EmptyMap /\ Add
    \/ map_ = EmptyMap /\ Cancel
    \/ map_ = EmptyMap /\ Match
    \/ Book = InitBook /\ MapInsert
    \/ Book = InitBook /\ MapRemove

\* the wider index starts empty, with any of the capacities
InitBoth ==
    /\ levels_ = InitBook.levels_
    /\ best_bid_ = InitBook.best_bid_
    /\ best_ask_ = InitBook.best_ask_
    /\ total_orders_ = InitBook.total_orders_
    /\ pool_ = InitBook.pool_
    /\ order_map_ = InitBook.order_map_
    /\ \E n \in MapSizes : map_ = EmptyMapOf(n)

SpecBoth == InitBoth /\ [][NextBoth]_vars

\* ------------------------------------------------------------ observation
\* What the claims speak of, read off the linked structures of a book b.

\* slot s holds a constructed order (a free block holds only a link)
IsOrder(b, s) == s \in Slots /\ "id" \in DOMAIN b.pool_.storage_[s]

\* the orders linked from n on in levels_[p], following at most fuel links
RECURSIVE Walk(_, _, _, _)
Walk(b, p, n, fuel) ==
    IF fuel = 0 \/ ~IsOrder(b, n) THEN <<>>
    ELSE <<n>> \o Walk(b, p, NextOf(b, n), fuel - 1)

\* the orders linked in levels_[p], head first
LevelSeq(b, p) == Walk(b, p, front(b, p), MaxOrders + 1)

Range(f) == {f[i] : i \in DOMAIN f}

\* the ids, and the remaining quantities, of the orders of levels_[p], head first
IdSeq(b, p) == [i \in DOMAIN LevelSeq(b, p) |-> b.pool_.storage_[LevelSeq(b, p)[i]].id]
QtySeq(b, p) == [i \in DOMAIN LevelSeq(b, p) |-> b.pool_.storage_[LevelSeq(b, p)[i]].qty]

\* the resting orders: the slots linked in some level
Resting(b) == UNION {Range(LevelSeq(b, p)) : p \in Prices}
RestingSide(b, side) == {s \in Resting(b) : b.pool_.storage_[s].side = side}
RestingIds(b) == {b.pool_.storage_[s].id : s \in Resting(b)}
PricesOf(b, side) == {b.pool_.storage_[s].price : s \in RestingSide(b, side)}

Opposite(side) == IF side = "Buy" THEN "Sell" ELSE "Buy"

RECURSIVE SumQty(_, _)
SumQty(b, S) ==
    IF S = {} THEN 0
    ELSE LET s == CHOOSE x \in S : TRUE
         IN b.pool_.storage_[s].qty + SumQty(b, S \ {s})

RECURSIVE SumSeq(_)
SumSeq(q) == IF q = <<>> THEN 0 ELSE Head(q) + SumSeq(Tail(q))

\* the total remaining quantity resting on a side
SideQty(b, side) == SumQty(b, RestingSide(b, side))

\* an aggressor of the given side with limit px may trade at price p
Within(side, px, p) == IF side = "Buy" THEN p <= px ELSE p >= px

\* the total remaining quantity an aggressor with limit px can trade against
Available(b, side, px) ==
    SumQty(b, {s \in RestingSide(b, Opposite(side)) :
                   Within(side, px, b.pool_.storage_[s].price)})

MaxOf(S) == CHOOSE x \in S : \A y \in S : y <= x
MinOf(S) == CHOOSE x \in S : \A y \in S : x <= y

\* an add with these arguments passes the three checks of add
ValidAdd(b, id, px, qty) ==
    lookup(b, id) = NULL /\ qty > 0 /\ px >= 0 /\ px <= MaxPrice

\* ------------------------------------------------------------------ claims

\* C1: between public calls the book is not crossed: bid() < ask(), with
\* bid() = -1 when no Buy order rests and ask() = MaxPrice + 1 when no Sell
\* order rests, and crossed() is false.
C1_NotCrossed ==
    /\ bid(Book) < ask(Book)
    /\ ~crossed(Book)
    /\ (RestingSide(Book, "Buy") = {} => bid(Book) = -1)
    /\ (RestingSide(Book, "Sell") = {} => ask(Book) = MaxPrice + 1)

\* both sides rest with no gap between them, one order having been partly
\* filled by a crossing add or a match
C1_Witness ==
    /\ has_bid(Book) /\ has_ask(Book)
    /\ bid(Book) + 1 = ask(Book)
    /\ \E s \in Resting(Book) :
           pool_.storage_[s].qty < pool_.storage_[s].orig_qty

\* C2: between public calls bid() is the greatest price at which a Buy order
\* rests, or -1 if none does, and ask() is the least price at which a Sell
\* order rests, or MaxPrice + 1 if none does.
C2_BestIsExtreme ==
    /\ bid(Book) = IF PricesOf(Book, "Buy") = {} THEN -1
                   ELSE MaxOf(PricesOf(Book, "Buy"))
    /\ ask(Book) = IF PricesOf(Book, "Sell") = {} THEN MaxPrice + 1
                   ELSE MinOf(PricesOf(Book, "Sell"))

\* a cancel at the best ask, and a match that empties the best ask level,
\* each make the scan pass an empty level to reach the next ask
C2_Witness ==
    /\ \E id \in Ids : \E r \in {cancel(Book, id)} :
           r.ret /\ ask(r.book) - ask(Book) >= 2 /\ has_ask(r.book)
    /\ \E q \in 1 .. MaxQty : \E m \in {match(Book, "Buy", q)} :
           m.qty = 0 /\ ask(m.book) - ask(Book) >= 2 /\ has_ask(m.book)

\* C3: between public calls order_count() = pool_used() = the sum of the
\* counts of the levels = the number of occupied entries of the order index.
C3_CountsAgree ==
    /\ order_count(Book) = pool_used(Book)
    /\ order_count(Book) = SumSeq([i \in 1 .. (MaxPrice + 1) |-> levels_[i - 1].order_cnt])
    /\ order_count(Book) = Cardinality({i \in Slots : order_map_[i] # NULL})

\* all the slots but the first are in use: the first was taken and released
C3_Witness ==
    /\ total_orders_ = MaxOrders - 1
    /\ pool_.free_head_ = 0
    /\ pool_.storage_[0].next = NULL

\* C4: between public calls every level's total_qty is the sum of the
\* remaining quantities of the orders linked in it, and its count is their
\* number.
C4_LevelTotals ==
    \A p \in Prices :
        /\ levels_[p].total_qty = SumSeq(QtySeq(Book, p))
        /\ levels_[p].order_cnt = Len(LevelSeq(Book, p))

\* a level of two orders whose head is partly filled, and a partly filled
\* order that a cancel removes
C4_Witness ==
    \E p \in Prices :
        /\ Len(LevelSeq(Book, p)) = 2
        /\ pool_.storage_[front(Book, p)].qty < pool_.storage_[front(Book, p)].orig_qty
        /\ \E r \in {cancel(Book, pool_.storage_[front(Book, p)].id)} :
               r.ret /\ Len(LevelSeq(r.book, p)) = 1

\* the slot, and the remaining quantity, of the resting order with this id
SlotById(b, id) == CHOOSE s \in Resting(b) : b.pool_.storage_[s].id = id
QtyById(b, id) == b.pool_.storage_[SlotById(b, id)].qty

\* the place of x in the sequence q
Pos(q, x) == CHOOSE i \in DOMAIN q : q[i] = x

\* t is what is left of q once some of its first elements are gone
IsSuffix(t, q) == \E n \in 0 .. Len(q) : t = SubSeq(q, n + 1, Len(q))

\* the quantity the fills before the k-th took from the order with this id
FilledBefore(fills, k, id) ==
    SumSeq([i \in 1 .. (k - 1) |->
               IF fills[i].passive_id = id THEN fills[i].qty ELSE 0])

\* every fill takes from an order of its level only once the orders ahead of
\* it in the level, as the call found it, are filled completely
FifoFills(b, fills) ==
    \A k \in DOMAIN fills :
        \E ids \in {IdSeq(b, fills[k].price)} :
            /\ fills[k].qty > 0
            /\ fills[k].passive_id \in Range(ids)
            /\ \A j \in DOMAIN ids :
                   j < Pos(ids, fills[k].passive_id)
                       => FilledBefore(fills, k, ids[j]) = QtySeq(b, fills[k].price)[j]

\* an order of b2 with less quantity than it had in b is the head of its level
KeepsHead(b, b2) ==
    \A p \in Prices : \A i \in DOMAIN IdSeq(b2, p) :
        (/\ IdSeq(b2, p)[i] \in Range(IdSeq(b, p))
         /\ QtySeq(b2, p)[i] < QtyById(b, IdSeq(b2, p)[i])) => i = 1

\* the level p of b2 is that of b less some of its first orders, with the
\* order id appended if it came to rest at px
QueueKept(b, b2, p, id, px) ==
    \E t \in {IdSeq(b2, p)} :
        \/ IsSuffix(t, IdSeq(b, p))
        \/ /\ p = px /\ t # <<>> /\ t[Len(t)] = id
           /\ IsSuffix(SubSeq(t, 1, Len(t) - 1), IdSeq(b, p))

\* C5: time priority.  For every call that can be made on the book: each
\* fill of a match or of a crossing add takes from an order only after the
\* orders that rested before it at its level are filled completely; an order
\* left partly filled is the head of its level; a match or an add removes
\* orders from the head of a level only and an add appends at the tail; a
\* cancel removes its order and leaves the others in their order with their
\* quantities.
C5_TimePriority ==
    /\ \A side \in Sides, q \in QtyInputs :
           \E m \in {match(Book, side, q)} :
               /\ FifoFills(Book, m.fills)
               /\ KeepsHead(Book, m.book)
               /\ \A p \in Prices : IsSuffix(IdSeq(m.book, p), IdSeq(Book, p))
    /\ \A id \in Ids, side \in Sides, px \in Prices, q \in 1 .. MaxQty, type \in OrdTypes :
           ValidAdd(Book, id, px, q) =>
               \E m \in {cross(Book, side, px, q)} :
                   \E r \in {add(Book, id, side, px, q, type, 0)} :
                       /\ FifoFills(Book, m.fills)
                       /\ KeepsHead(Book, r.book)
                       /\ \A p \in Prices : QueueKept(Book, r.book, p, id, px)
    /\ \A id \in Ids :
           \E r \in {cancel(Book, id)} :
               \A p \in Prices :
                   /\ IdSeq(r.book, p) = SelectSeq(IdSeq(Book, p), LAMBDA x : x # id)
                   /\ \A i \in DOMAIN IdSeq(r.book, p) :
                          QtySeq(r.book, p)[i] = QtyById(Book, IdSeq(r.book, p)[i])

\* a match fills the head of a level completely and the order behind it in
\* part, and a cancel of the head leaves the order behind it
C5_Witness ==
    \E p \in Prices :
        /\ Len(LevelSeq(Book, p)) >= 2
        /\ \E side \in Sides, q \in 1 .. MaxQty : \E m \in {match(Book, side, q)} :
               /\ Len(m.fills) = 2
               /\ m.fills[1].passive_id = IdSeq(Book, p)[1]
               /\ m.fills[2].passive_id = IdSeq(Book, p)[2]
               /\ IdSeq(m.book, p) = Tail(IdSeq(Book, p))
               /\ QtySeq(m.book, p)[1] < QtySeq(Book, p)[2]
        /\ \E r \in {cancel(Book, IdSeq(Book, p)[1])} :
               r.ret /\ IdSeq(r.book, p) = Tail(IdSeq(Book, p))

\* p1 is a better price than p2 for an aggressor of this side
Better(side, p1, p2) == IF side = "Buy" THEN p1 < p2 ELSE p1 > p2

\* every fill is taken from an opposing order only once the opposing orders
\* at better prices, as the call found them, are filled completely
BestFirst(b, side, fills) ==
    \A k \in DOMAIN fills :
        /\ fills[k].passive_id \in
               {b.pool_.storage_[s].id : s \in RestingSide(b, Opposite(side))}
        /\ \A s \in RestingSide(b, Opposite(side)) :
               Better(side, b.pool_.storage_[s].price, fills[k].price)
                   => FilledBefore(fills, k, b.pool_.storage_[s].id) = b.pool_.storage_[s].qty

\* the opposing best of b is the price of the first opposing level with orders
OpposingBestIsFirst(b, side) ==
    IF side = "Buy"
    THEN ask(b) = IF PricesOf(b, "Sell") = {} THEN MaxPrice + 1 ELSE MinOf(PricesOf(b, "Sell"))
    ELSE bid(b) = IF PricesOf(b, "Buy") = {} THEN -1 ELSE MaxOf(PricesOf(b, "Buy"))

\* C6: price priority.  For every match and every crossing add that can be
\* made on the book: a Buy aggressor takes from a Sell order at price p only
\* once no Sell order rests below p, a Sell aggressor takes from a Buy order
\* at price p only once no Buy order rests above p, and after the sweep the
\* opposing best is the price of the first opposing level that holds orders.
C6_PricePriority ==
    /\ \A side \in Sides, q \in QtyInputs :
           \E m \in {match(Book, side, q)} :
               BestFirst(Book, side, m.fills) /\ OpposingBestIsFirst(m.book, side)
    /\ \A id \in Ids, side \in Sides, px \in Prices, q \in 1 .. MaxQty :
           ValidAdd(Book, id, px, q) =>
               \E m \in {cross(Book, side, px, q)} :
                   BestFirst(Book, side, m.fills) /\ OpposingBestIsFirst(m.book, side)

\* a match takes from two levels, leaving quantity in the second
C6_Witness ==
    \E side \in Sides, q \in 1 .. MaxQty : \E m \in {match(Book, side, q)} :
        /\ Len(m.fills) = 2
        /\ Better(side, m.fills[1].price, m.fills[2].price)
        /\ m.fills[2].passive_id \in RestingIds(m.book)

\* C7: match(side, q) with q > 0 returns max(0, q - L), L the total quantity
\* resting on the opposite side; that total decreases by q less the value
\* returned; and when the value returned is positive nothing rests on the
\* opposite side and has_ask() resp. has_bid() is false.
C7_MatchResult ==
    \A side \in Sides, q \in 1 .. MaxQty :
        \E m \in {match(Book, side, q)} : \E L \in {SideQty(Book, Opposite(side))} :
            /\ m.qty = IF q - L > 0 THEN q - L ELSE 0
            /\ SideQty(m.book, Opposite(side)) = L - (q - m.qty)
            /\ m.qty > 0 =>
                   /\ RestingSide(m.book, Opposite(side)) = {}
                   /\ IF side = "Buy" THEN ~has_ask(m.book) ELSE ~has_bid(m.book)

\* a match that finds some of what it asks for but not all, in a book with
\* orders on both sides
C7_Witness ==
    \E side \in Sides, q \in 1 .. MaxQty : \E m \in {match(Book, side, q)} :
        /\ RestingSide(Book, side) # {}
        /\ RestingSide(Book, Opposite(side)) # {}
        /\ m.qty > 0
        /\ m.qty < q

\* the add crosses: its price reaches the opposing best
Crosses(b, side, px) == IF side = "Buy" THEN px >= ask(b) ELSE px <= bid(b)

\* the opposing orders of b that an aggressor with limit px may not trade
\* against rest in b2 with their quantities
BeyondLimitKept(b, b2, side, px) ==
    \A s \in RestingSide(b, Opposite(side)) :
        ~Within(side, px, b.pool_.storage_[s].price) =>
            /\ b.pool_.storage_[s].id \in RestingIds(b2)
            /\ QtyById(b2, b.pool_.storage_[s].id) = b.pool_.storage_[s].qty

\* C8: a valid add of side s at price p with quantity q fills exactly
\* min(q, A), A the total quantity of the opposing orders priced within p
\* (Sell orders at p or below for a Buy, Buy orders at p or above for a
\* Sell), and takes nothing from an opposing order priced beyond p; an add
\* that does not cross fills nothing.
C8_CrossWithinLimit ==
    \A id \in Ids, side \in Sides, px \in Prices, q \in 1 .. MaxQty, type \in OrdTypes :
        ValidAdd(Book, id, px, q) =>
            \E r \in {add(Book, id, side, px, q, type, 0)} :
                /\ SideQty(Book, Opposite(side)) - SideQty(r.book, Opposite(side))
                       = Min(q, Available(Book, side, px))
                /\ BeyondLimitKept(Book, r.book, side, px)
                /\ ~Crosses(Book, side, px) =>
                       \A p \in Prices :
                           /\ SubSeq(IdSeq(r.book, p), 1, Len(IdSeq(Book, p))) = IdSeq(Book, p)
                           /\ SubSeq(QtySeq(r.book, p), 1, Len(QtySeq(Book, p))) = QtySeq(Book, p)

\* a crossing add that fills all there is within its limit, less than its
\* quantity, while an opposing order rests beyond the limit
C8_Witness ==
    \E id \in Ids, side \in Sides, px \in Prices, q \in 1 .. MaxQty :
        /\ ValidAdd(Book, id, px, q)
        /\ Available(Book, side, px) > 0
        /\ Available(Book, side, px) < q
        /\ Available(Book, side, px) < SideQty(Book, Opposite(side))
        /\ add(Book, id, side, px, q, "Limit", 0).ret = "Ok"

C10_IocMarketNeverRest ==
    \A id \in Ids, side \in Sides, px \in Prices, q \in 1 .. MaxQty, type \in {"IOC", "Market"} :
        ValidAdd(Book, id, px, q) =>
            \E r \in {add(Book, id, side, px, q, type, 0)} :
                /\ r.ret = "Ok"
                /\ get_order(r.book, id) = NULL
                /\ id \notin RestingIds(r.book)
                /\ order_count(r.book) <= order_count(Book)
                /\ pool_used(r.book) <= pool_used(Book)

\* from one book an IOC add is filled in part, a Market add not at all and an
\* IOC add completely
C10_Witness ==
    \E id \in Ids, side \in Sides :
        /\ \E px \in Prices, q \in 1 .. MaxQty :
               /\ ValidAdd(Book, id, px, q)
               /\ Available(Book, side, px) > 0
               /\ Available(Book, side, px) < q
               /\ add(Book, id, side, px, q, "IOC", 0).ret = "Ok"
        /\ \E px \in Prices, q \in 1 .. MaxQty :
               /\ ValidAdd(Book, id, px, q)
               /\ Available(Book, side, px) = 0
               /\ add(Book, id, side, px, q, "Market", 0).ret = "Ok"
        /\ \E px \in Prices, q \in 1 .. MaxQty :
               /\ ValidAdd(Book, id, px, q)
               /\ Available(Book, side, px) >= q
               /\ add(Book, id, side, px, q, "IOC", 0).ret = "Ok"

\* C11: an add of type Market does not use its price as a cap: on every book
\* add(id, Buy, p, q, Market) leaves the book that match(Buy, q) leaves, Sell
\* orders priced above p filled included, and add(id, Sell, p, q, Market)
\* leaves the book that match(Sell, q) leaves, Buy orders priced below p
\* filled included.
C11_MarketIgnoresPrice ==
    \A id \in Ids, side \in Sides, px \in Prices, q \in 1 .. MaxQty :
        ValidAdd(Book, id, px, q) =>
            \E r \in {add(Book, id, side, px, q, "Market", 0)} :
                \E m \in {match_internal(Matching(Book, q), side,
                                         IF side = "Buy" THEN MaxPrice ELSE 0)} :
                    /\ r.ret = "Ok"
                    /\ r.book = m.book

\* C12: a valid IOC add that does not cross (Buy priced below ask(), Sell
\* priced above bid()) returns Ok and leaves the whole book as it was: no
\* resting order is filled, nothing rests, and order_count, pool_used, bid,
\* ask and the count and total_qty of every level keep their values.
C12_IocNoCrossNoChange ==
    \A id \in Ids, side \in Sides, px \in Prices, q \in 1 .. MaxQty :
        (ValidAdd(Book, id, px, q) /\ ~Crosses(Book, side, px)) =>
            \E r \in {add(Book, id, side, px, q, "IOC", 0)} :
                /\ r.ret = "Ok"
                /\ r.book = Book
                /\ get_order(r.book, id) = NULL
                /\ order_count(r.book) = order_count(Book)
                /\ pool_used(r.book) = pool_used(Book)
                /\ bid(r.book) = bid(Book)
                /\ ask(r.book) = ask(Book)
                /\ \A p \in Prices :
                       /\ r.book.levels_[p].order_cnt = Book.levels_[p].order_cnt
                       /\ r.book.levels_[p].total_qty = Book.levels_[p].total_qty
                       /\ IdSeq(r.book, p) = IdSeq(Book, p)
                       /\ QtySeq(r.book, p) = QtySeq(Book, p)

\* an IOC Buy priced below a resting Sell, and an IOC Sell priced above a
\* resting Buy, are accepted from a book with orders on both sides
C12_Witness ==
    /\ has_bid(Book)
    /\ has_ask(Book)
    /\ \E id \in Ids, px \in Prices, q \in 1 .. MaxQty :
           /\ ValidAdd(Book, id, px, q)
           /\ px < ask(Book)
           /\ add(Book, id, "Buy", px, q, "IOC", 0).ret = "Ok"
    /\ \E id \in Ids, px \in Prices, q \in 1 .. MaxQty :
           /\ ValidAdd(Book, id, px, q)
           /\ px > bid(Book)
           /\ add(Book, id, "Sell", px, q, "IOC", 0).ret = "Ok"

\* the price is outside [0, MaxPrice]
BadPrice(px) == px < 0 \/ px > MaxPrice

\* C13: add checks duplicate id, then qty, then price, and returns the first
\* failure: with the id resting the result is DuplicateId even when qty <= 0
\* or the price is out of range; with the id not resting and qty <= 0 the
\* result is InvalidQty even when the price is out of range; InvalidPrice is
\* returned only when the id is not resting and qty > 0.
C13_ValidationOrder ==
    \A id \in Ids, side \in Sides, px \in PriceInputs, q \in QtyInputs, type \in OrdTypes :
        \E r \in {add(Book, id, side, px, q, type, 0)} :
            /\ id \in RestingIds(Book) => r.ret = "DuplicateId"
            /\ (id \notin RestingIds(Book) /\ q <= 0) => r.ret = "InvalidQty"
            /\ r.ret = "InvalidPrice" =>
                   (id \notin RestingIds(Book) /\ q > 0 /\ BadPrice(px))

\* with one id resting and another not, adds with a bad quantity and a bad
\* price are answered DuplicateId for the first and InvalidQty for the second,
\* and a bad price alone InvalidPrice
C13_Witness ==
    \E id \in RestingIds(Book), id2 \in Ids \ RestingIds(Book) :
        \E side \in Sides, px \in PriceInputs, q \in QtyInputs, type \in OrdTypes :
            /\ BadPrice(px)
            /\ q < 0
            /\ add(Book, id, side, px, q, type, 0).ret = "DuplicateId"
            /\ add(Book, id2, side, px, q, type, 0).ret = "InvalidQty"
            /\ add(Book, id2, side, px, 1, type, 0).ret = "InvalidPrice"

\* the order with this id rests in levels_[px] of b with that price, and the
\* best price of its side is px or the better one b0 had
RestsAt(b0, b, id, side, px) ==
    /\ get_order(b, id) # NULL
    /\ id \in Range(IdSeq(b, px))
    /\ b.pool_.storage_[get_order(b, id)].price = px
    /\ b.pool_.storage_[get_order(b, id)].side = side
    /\ IF side = "Buy"
       THEN bid(b) = (IF bid(b0) > px THEN bid(b0) ELSE px) /\ has_bid(b)
       ELSE ask(b) = (IF ask(b0) < px THEN ask(b0) ELSE px) /\ has_ask(b)

\* C14 (as stated): for an add with a non-resting id and qty > 0 the result
\* is InvalidPrice exactly when price < 0 or price > MaxPrice; adds at price 0
\* and at price MaxPrice return Ok and, when they rest, are found in
\* levels[0] resp. levels[MaxPrice] with bid()/ask() updated.
C14_BoundsAlwaysOk ==
    \A id \in Ids, side \in Sides, px \in PriceInputs, q \in 1 .. MaxQty, type \in OrdTypes :
        id \notin RestingIds(Book) =>
            \E r \in {add(Book, id, side, px, q, type, 0)} :
                /\ (r.ret = "InvalidPrice") <=> BadPrice(px)
                /\ px \in {0, MaxPrice} =>
                       /\ r.ret = "Ok"
                       /\ get_order(r.book, id) # NULL =>
                              RestsAt(Book, r.book, id, side, px)

\* C14 (amended): for an add with a non-resting id and qty > 0 the result is
\* InvalidPrice exactly when price < 0 or price > MaxPrice; an add at price 0
\* or MaxPrice returns Ok, except that a Limit add that does not cross returns
\* PoolExhausted when pool_used() = MaxOrders; when it rests it is found in
\* levels[0] resp. levels[MaxPrice] with bid()/ask() updated.
C14_PriceBounds ==
    \A id \in Ids, side \in Sides, px \in PriceInputs, q \in 1 .. MaxQty, type \in OrdTypes :
        id \notin RestingIds(Book) =>
            \E r \in {add(Book, id, side, px, q, type, 0)} :
                /\ (r.ret = "InvalidPrice") <=> BadPrice(px)
                /\ px \in {0, MaxPrice} =>
                       /\ r.ret \in {"Ok", "PoolExhausted"}
                       /\ (r.ret = "PoolExhausted") <=>
                              /\ pool_used(Book) = MaxOrders
                              /\ type = "Limit"
                              /\ ~Crosses(Book, side, px)
                       /\ (r.ret = "Ok" /\ get_order(r.book, id) # NULL) =>
                              RestsAt(Book, r.book, id, side, px)

\* from one book a Buy rests at price 0 below the bid and a Sell at MaxPrice,
\* and prices -1 and MaxPrice + 1 are refused
C14_Witness ==
    /\ has_bid(Book) /\ bid(Book) > 0
    /\ \E id \in Ids \ RestingIds(Book), q \in 1 .. MaxQty :
           /\ \E r \in {add(Book, id, "Buy", 0, q, "Limit", 0)} :
                  r.ret = "Ok" /\ RestsAt(Book, r.book, id, "Buy", 0)
           /\ \E r \in {add(Book, id, "Sell", MaxPrice, q, "Limit", 0)} :
                  r.ret = "Ok" /\ RestsAt(Book, r.book, id, "Sell", MaxPrice)
           /\ add(Book, id, "Buy", -1, q, "Limit", 0).ret = "InvalidPrice"
           /\ add(Book, id, "Sell", MaxPrice + 1, q, "Limit", 0).ret = "InvalidPrice"

\* C15: an add with qty <= 0 and a non-resting id returns InvalidQty, and
\* every add that returns InvalidQty or InvalidPrice leaves the book as it
\* was (resting orders and their qty, order_count, pool_used, bid, ask, every
\* level's count and total_qty), for every side, type and book, a price that
\* would have crossed included.
C15_InvalidNoChange ==
    \A id \in Ids, side \in Sides, px \in PriceInputs, q \in QtyInputs, type \in OrdTypes :
        \E r \in {add(Book, id, side, px, q, type, 0)} :
            /\ (id \notin RestingIds(Book) /\ q <= 0) => r.ret = "InvalidQty"
            /\ r.ret \in {"InvalidQty", "InvalidPrice"} =>
                   /\ r.book = Book
                   /\ order_count(r.book) = order_count(Book)
                   /\ pool_used(r.book) = pool_used(Book)
                   /\ bid(r.book) = bid(Book)
                   /\ ask(r.book) = ask(Book)
                   /\ \A p \in Prices :
                          /\ r.book.levels_[p].order_cnt = Book.levels_[p].order_cnt
                          /\ r.book.levels_[p].total_qty = Book.levels_[p].total_qty
                          /\ IdSeq(r.book, p) = IdSeq(Book, p)
                          /\ QtySeq(r.book, p) = QtySeq(Book, p)

\* with a Sell resting, a Buy priced at or above it is refused for its
\* quantity (0 and negative) and a Buy priced MaxPrice + 1 for its price
C15_Witness ==
    /\ has_ask(Book)
    /\ \E id \in Ids \ RestingIds(Book), type \in OrdTypes :
           /\ add(Book, id, "Buy", ask(Book), 0, type, 0).ret = "InvalidQty"
           /\ add(Book, id, "Buy", MaxPrice, -1, type, 0).ret = "InvalidQty"
           /\ add(Book, id, "Buy", MaxPrice + 1, 1, type, 0).ret = "InvalidPrice"

\* C16: an add whose id is that of a resting order returns DuplicateId and
\* leaves the book as it was, for every side, price, qty and type (IOC and
\* Market and crossing prices included): the resting order keeps its side,
\* price, qty and queue position and no opposing order is filled.
C16_DuplicateNoChange ==
    \A id \in RestingIds(Book) :
        \A side \in Sides, px \in PriceInputs, q \in QtyInputs, type \in OrdTypes :
            \E r \in {add(Book, id, side, px, q, type, 0)} :
                /\ r.ret = "DuplicateId"
                /\ r.book = Book
                /\ id \in RestingIds(r.book)
                /\ r.book.pool_.storage_[SlotById(r.book, id)] =
                       Book.pool_.storage_[SlotById(Book, id)]
                /\ \A p \in Prices :
                       /\ IdSeq(r.book, p) = IdSeq(Book, p)
                       /\ QtySeq(r.book, p) = QtySeq(Book, p)

\* with a Buy and a Sell resting, adds with the Buy's id that would cross the
\* Sell as a Limit, an IOC and a Market order are refused
C16_Witness ==
    \E s \in RestingSide(Book, "Buy") :
        /\ has_ask(Book)
        /\ \A type \in OrdTypes :
               add(Book, Book.pool_.storage_[s].id, "Buy", ask(Book), 1, type, 0).ret
                   = "DuplicateId"

\* C17: whenever add returns PoolExhausted the book is the book before the
\* call: no resting opposing order has been filled or removed by the crossing
\* step that runs before the allocation, for every book and every order.
C17_PoolExhaustedNoChange ==
    \A id \in Ids, side \in Sides, px \in PriceInputs, q \in QtyInputs, type \in OrdTypes :
        \E r \in {add(Book, id, side, px, q, type, 0)} :
            r.ret = "PoolExhausted" =>
                /\ r.book = Book
                /\ ~Crosses(Book, side, px)
                /\ \A p \in Prices :
                       /\ IdSeq(r.book, p) = IdSeq(Book, p)
                       /\ QtySeq(r.book, p) = QtySeq(Book, p)

\* with the pool full and orders on both sides, one add is refused with
\* PoolExhausted and a crossing Limit add larger than what it can trade
\* against comes to rest
C17_Witness ==
    /\ pool_used(Book) = MaxOrders
    /\ has_bid(Book)
    /\ has_ask(Book)
    /\ \E id \in Ids, side \in Sides, px \in Prices, q \in 1 .. MaxQty :
           add(Book, id, side, px, q, "Limit", 0).ret = "PoolExhausted"
    /\ \E id \in Ids, side \in Sides, px \in Prices, q \in 1 .. MaxQty :
           /\ Crosses(Book, side, px)
           /\ Available(Book, side, px) < q
           /\ \E r \in {add(Book, id, side, px, q, "Limit", 0)} :
                  r.ret = "Ok" /\ get_order(r.book, id) # NULL

\* C18: when pool_used() = MaxOrders, a valid Limit add that does not cross
\* returns PoolExhausted, while a valid add that crosses and is consumed
\* completely by resting orders, or is of type IOC or Market, returns Ok.
C18_FullPool ==
    pool_used(Book) = MaxOrders =>
        \A id \in Ids, side \in Sides, px \in Prices, q \in 1 .. MaxQty, type \in OrdTypes :
            ValidAdd(Book, id, px, q) =>
                \E r \in {add(Book, id, side, px, q, type, 0)} :
                    /\ (type = "Limit" /\ ~Crosses(Book, side, px)) =>
                           r.ret = "PoolExhausted"
                    /\ (Crosses(Book, side, px) /\ Available(Book, side, px) >= q) =>
                           r.ret = "Ok"
                    /\ type \in {"IOC", "Market"} => r.ret = "Ok"

\* with the pool full, a Limit add inside the spread is refused, a Limit add
\* consumed completely is accepted, and so is an IOC add that does not cross
C18_Witness ==
    /\ pool_used(Book) = MaxOrders
    /\ \E id \in Ids, side \in Sides, px \in Prices, q \in 1 .. MaxQty :
           /\ ValidAdd(Book, id, px, q)
           /\ ~Crosses(Book, side, px)
           /\ add(Book, id, side, px, q, "Limit", 0).ret = "PoolExhausted"
           /\ add(Book, id, side, px, q, "IOC", 0).ret = "Ok"
    /\ \E id \in Ids, side \in Sides, px \in Prices, q \in 1 .. MaxQty :
           /\ ValidAdd(Book, id, px, q)
           /\ Crosses(Book, side, px)
           /\ Available(Book, side, px) >= q
           /\ add(Book, id, side, px, q, "Limit", 0).ret = "Ok"

\* C19: cancel(id) for an id that is not resting (never added, cancelled,
\* filled completely, or added as IOC or Market) returns false and leaves the
\* book as it was.
C19_CancelMiss ==
    \A id \in Ids \ RestingIds(Book) :
        \E r \in {cancel(Book, id)} :
            /\ r.ret = FALSE
            /\ r.book = Book

\* an order rests in the second block while the first, once taken, is free
\* again, and the cancel of an id whose home slot of the index holds another
\* order returns false
C19_Witness ==
    /\ IsOrder(Book, 1)
    /\ ~IsOrder(Book, 0)
    /\ \E id \in Ids \ RestingIds(Book) :
           /\ Book.order_map_[slot(id)] # NULL
           /\ cancel(Book, id).ret = FALSE

\* the (id, qty) pairs of the orders of levels_[p], head first
IdQtySeq(b, p) == [i \in DOMAIN LevelSeq(b, p) |-> <<IdSeq(b, p)[i], QtySeq(b, p)[i]>>]

\* the sequence q of (id, qty) pairs without the pair of this id
WithoutId(q, id) == SelectSeq(q, LAMBDA x : x[1] # id)

\* C20: cancel(id) for a resting order returns true and removes exactly that
\* order: afterwards get_order(id) returns nothing and a second cancel(id)
\* returns false, its level's count is lower by 1 and its total_qty by the
\* order's remaining qty (not its original qty), order_count and pool_used
\* are lower by 1, and every other resting order keeps its price, qty and
\* relative queue position.
C20_CancelHit ==
    \A s \in Resting(Book) :
        \E o \in {Book.pool_.storage_[s]} :
            \E r \in {cancel(Book, o.id)} :
                /\ r.ret = TRUE
                /\ get_order(r.book, o.id) = NULL
                /\ o.id \notin RestingIds(r.book)
                /\ cancel(r.book, o.id).ret = FALSE
                /\ r.book.levels_[o.price].order_cnt = Book.levels_[o.price].order_cnt - 1
                /\ r.book.levels_[o.price].total_qty = Book.levels_[o.price].total_qty - o.qty
                /\ order_count(r.book) = order_count(Book) - 1
                /\ pool_used(r.book) = pool_used(Book) - 1
                /\ \A p \in Prices :
                       /\ IdQtySeq(r.book, p) = WithoutId(IdQtySeq(Book, p), o.id)
                       /\ p # o.price =>
                              /\ r.book.levels_[p].order_cnt = Book.levels_[p].order_cnt
                              /\ r.book.levels_[p].total_qty = Book.levels_[p].total_qty

\* the head of a level of two orders, filled in part, is cancelled
C20_Witness ==
    \E s \in Resting(Book) :
        \E o \in {Book.pool_.storage_[s]} :
            /\ o.qty < o.orig_qty
            /\ Book.levels_[o.price].order_cnt = 2
            /\ cancel(Book, o.id).ret = TRUE

\* the two books agree on order_count, pool_used, bid, ask and the count and
\* total_qty of every level
SameAggregates(b1, b2) ==
    /\ order_count(b1) = order_count(b2)
    /\ pool_used(b1) = pool_used(b2)
    /\ bid(b1) = bid(b2)
    /\ ask(b1) = ask(b2)
    /\ \A p \in Prices :
           /\ b1.levels_[p].order_cnt = b2.levels_[p].order_cnt
           /\ b1.levels_[p].total_qty = b2.levels_[p].total_qty

\* C21 (as stated): for every add(id, ...) that returns Ok and leaves the
\* order resting, a cancel(id) right after it returns the book to its state
\* before the add: order_count, pool_used, bid, ask and the count and
\* total_qty of every level have the values they had before the add.
C21_RoundTripToBefore ==
    \A id \in Ids, side \in Sides, px \in Prices, q \in 1 .. MaxQty, type \in OrdTypes :
        \E r \in {add(Book, id, side, px, q, type, 0)} :
            (r.ret = "Ok" /\ get_order(r.book, id) # NULL) =>
                \E c \in {cancel(r.book, id)} :
                    /\ c.ret = TRUE
                    /\ SameAggregates(c.book, Book)

\* C21 (amended): for every add(id, ...) that returns Ok and leaves the order
\* resting, a cancel(id) right after it returns the book to the state the
\* crossing step of the add left: when the add did not cross, order_count,
\* pool_used, bid, ask and the count and total_qty of every level have the
\* values they had before the add; when it crossed, they have the values an
\* IOC add with the same arguments leaves, the orders it filled staying
\* filled.
C21_RoundTrip ==
    \A id \in Ids, side \in Sides, px \in Prices, q \in 1 .. MaxQty, type \in OrdTypes :
        \E r \in {add(Book, id, side, px, q, type, 0)} :
            (r.ret = "Ok" /\ get_order(r.book, id) # NULL) =>
                \E c \in {cancel(r.book, id)} :
                    /\ c.ret = TRUE
                    /\ SameAggregates(c.book, add(Book, id, side, px, q, "IOC", 0).book)
                    /\ \A p \in Prices :
                           IdQtySeq(c.book, p) =
                               IdQtySeq(add(Book, id, side, px, q, "IOC", 0).book, p)
                    /\ ~Crosses(Book, side, px) =>
                           /\ SameAggregates(c.book, Book)
                           /\ c.book = Book

\* from one book with a Sell resting, a Buy comes to rest as the new bid
\* without crossing and its cancel brings the bid back, and a Buy comes to
\* rest after filling a Sell
C21_Witness ==
    /\ has_ask(Book)
    /\ \E id \in Ids, px \in Prices, q \in 1 .. MaxQty :
           /\ px > bid(Book)
           /\ ~Crosses(Book, "Buy", px)
           /\ \E r \in {add(Book, id, "Buy", px, q, "Limit", 0)} :
                  /\ r.ret = "Ok"
                  /\ bid(r.book) = px
                  /\ bid(cancel(r.book, id).book) = bid(Book)
    /\ \E id \in Ids, px \in Prices, q \in 1 .. MaxQty :
           /\ Crosses(Book, "Buy", px)
           /\ \E r \in {add(Book, id, "Buy", px, q, "Limit", 0)} :
                  /\ r.ret = "Ok"
                  /\ get_order(r.book, id) # NULL
                  /\ cancel(r.book, id).ret = TRUE

\* every entry of the index t is reached by the probe of lookup, and no id
\* has two entries
MapReaches(t) ==
    /\ \A i \in DOMAIN t : t[i] # NULL => map_lookup(t, t[i]) = i
    /\ \A i, j \in DOMAIN t : (t[i] # NULL /\ t[i] = t[j]) => i = j
    /\ \A id \in MapIds : map_lookup(t, id) # NULL <=> id \in MapEntries(t)

\* going up from slot v with wrap-around, slot n comes strictly before slot c
Between(v, n, c) ==
    /\ (n - v) % MapSlots > 0
    /\ (n - v) % MapSlots < (c - v) % MapSlots

\* C22: index reachability.  get_order(id) returns the order with that id
\* if and only if that order is resting, and every live order is linked in
\* the level of its price; in the index, ids congruent modulo its size and
\* entries whose natural slot lies between a vacated slot and their own slot
\* included, every entry is reached by lookup, and the removal of one id
\* leaves exactly the other entries, each of them still reached.
C22_IndexReachable ==
    /\ \A id \in Ids :
           /\ get_order(Book, id) # NULL <=> id \in RestingIds(Book)
           /\ get_order(Book, id) # NULL =>
                  /\ IsOrder(Book, get_order(Book, id))
                  /\ Book.pool_.storage_[get_order(Book, id)].id = id
    /\ \A s \in Slots :
           IsOrder(Book, s) =>
               /\ s \in Range(LevelSeq(Book, Book.pool_.storage_[s].price))
               /\ \A p \in Prices :
                      s \in Range(LevelSeq(Book, p)) => p = Book.pool_.storage_[s].price
    /\ \A s \in Resting(Book) :
           \E r \in {cancel(Book, Book.pool_.storage_[s].id)} :
               \A s2 \in Resting(Book) \ {s} :
                   get_order(r.book, Book.pool_.storage_[s2].id) = s2
    /\ MapReaches(map_)
    /\ \A id \in MapEntries(map_) :
           \E t \in {map_remove(map_, id)} :
               /\ MapEntries(t) = MapEntries(map_) \ {id}
               /\ MapReaches(t)
    /\ \A id \in MapIds :
           (map_lookup(map_, id) = NULL /\ Cardinality(MapEntries(map_)) < MapSize(map_)) =>
               \E r \in {map_insert(map_, id)} :
                   /\ r.ok
                   /\ MapEntries(r.map) = MapEntries(map_) \cup {id}
                   /\ MapReaches(r.map)

\* a full index with two congruent ids, from which the removal of one id
\* vacates slot v while another entry, kept at slot c, has its natural slot
\* strictly between v and c
C22_Witness ==
    /\ MapSize(map_) = MapSlots
    /\ Cardinality(MapEntries(map_)) = MapSlots
    /\ \E v, c \in MapIndices :
           /\ v # c
           /\ map_slot(map_, map_[v]) = v
           /\ Between(v, map_slot(map_, map_[c]), c)
           /\ \E t \in {map_remove(map_, map_[v])} :
                  /\ t[c] = map_[c]
                  /\ map_lookup(t, map_[c]) = c

\* C23: between public calls no price level holds both a Buy order and a
\* Sell order, and every resting Buy order is priced strictly below every
\* resting Sell order.
C23_SidesSeparated ==
    /\ \A p \in Prices :
           \A s1, s2 \in Range(LevelSeq(Book, p)) :
               Book.pool_.storage_[s1].side = Book.pool_.storage_[s2].side
    /\ \A s1 \in RestingSide(Book, "Buy"), s2 \in RestingSide(Book, "Sell") :
           Book.pool_.storage_[s1].price < Book.pool_.storage_[s2].price

\* a Buy and a Sell rest at neighbouring prices, and a Sell priced at the
\* Buy's level is matched against it instead of joining the level
C23_Witness ==
    \E s1 \in RestingSide(Book, "Buy"), s2 \in RestingSide(Book, "Sell") :
        /\ Book.pool_.storage_[s2].price = Book.pool_.storage_[s1].price + 1
        /\ \E id \in Ids \ RestingIds(Book) :
               \E r \in {add(Book, id, "Sell", Book.pool_.storage_[s1].price, 1, "Limit", 0)} :
                   /\ r.ret = "Ok"
                   /\ get_order(r.book, id) = NULL

\* the books the public calls can leave from b
CallResults(b) ==
    {add(b, id, side, px, q, type, 0).book :
         id \in Ids, side \in Sides, px \in PriceInputs, q \in QtyInputs, type \in OrdTypes}
    \cup {cancel(b, id).book : id \in Ids}
    \cup {match(b, side, q).book : side \in Sides, q \in QtyInputs}

\* C24: between public calls every resting order has 0 < qty <= orig_qty,
\* and through every call that leaves it resting, partial fills included, its
\* orig_qty keeps its value; an order whose qty reaches 0 in a match is
\* removed before the call returns, so no order with qty <= 0 is seen.
C24_QtyWithinOriginal ==
    /\ \A s \in Slots :
           IsOrder(Book, s) =>
               /\ 0 < Book.pool_.storage_[s].qty
               /\ Book.pool_.storage_[s].qty <= Book.pool_.storage_[s].orig_qty
    /\ \A p \in Prices : \A i \in DOMAIN QtySeq(Book, p) : QtySeq(Book, p)[i] > 0
    /\ \A b2 \in CallResults(Book) :
           \A s \in Resting(Book) :
               \E o \in {Book.pool_.storage_[s]} :
                   o.id \in RestingIds(b2) =>
                       /\ b2.pool_.storage_[SlotById(b2, o.id)].orig_qty = o.orig_qty
                       /\ b2.pool_.storage_[SlotById(b2, o.id)].qty <= o.qty
                       /\ b2.pool_.storage_[SlotById(b2, o.id)].qty > 0

\* an order filled in part rests with its original quantity recorded, a match
\* for part of an untouched order leaves it with less, and a match for all
\* of the first removes it
C24_Witness ==
    /\ \E s \in Resting(Book) :
           \E o \in {Book.pool_.storage_[s]} :
               /\ o.qty < o.orig_qty
               /\ \E m \in {match(Book, Opposite(o.side), o.qty)} :
                      /\ m.qty = 0
                      /\ o.id \notin RestingIds(m.book)
    /\ \E s \in Resting(Book) :
           \E o \in {Book.pool_.storage_[s]} :
               /\ o.qty = o.orig_qty
               /\ o.qty > 1

\* the quantity the executions fills took from the order with this id
TotalFilled(fills, id) == FilledBefore(fills, Len(fills) + 1, id)

\* the orders of b that no longer rest in b2
Released(b, b2) == {s \in Resting(b) : b.pool_.storage_[s].id \notin RestingIds(b2)}

\* what a call that made the executions fills, cancelled the order with id
\* cancelled (NULL: none) and brought the order with id newid to rest (NULL:
\* none) did to the orders resting in b, b2 being the book it left: an order
\* still resting is the same block, found by get_order, with its price and
\* side and with no more quantity; an order gone was cancelled or filled to
\* 0, is not found any more and its block is free or holds the new order;
\* pool_used fell by one for every order gone
Lifecycle(b, b2, fills, cancelled, newid) ==
    /\ \A s \in Resting(b) :
           \E o \in {b.pool_.storage_[s]} :
               IF o.id \in RestingIds(b2)
               THEN /\ get_order(b2, o.id) = s
                    /\ b2.pool_.storage_[s].id = o.id
                    /\ b2.pool_.storage_[s].price = o.price
                    /\ b2.pool_.storage_[s].side = o.side
                    /\ b2.pool_.storage_[s].qty = o.qty - TotalFilled(fills, o.id)
                    /\ b2.pool_.storage_[s].qty <= o.qty
                    /\ b2.pool_.storage_[s].qty > 0
                    /\ o.id # cancelled
               ELSE /\ \/ o.id = cancelled /\ TotalFilled(fills, o.id) = 0
                       \/ o.id # cancelled /\ TotalFilled(fills, o.id) = o.qty
                    /\ get_order(b2, o.id) = NULL
                    /\ \/ ~IsOrder(b2, s)
                       \/ newid # NULL /\ b2.pool_.storage_[s].id = newid
    /\ pool_used(b2) = pool_used(b) - Cardinality(Released(b, b2))
                           + (IF newid = NULL THEN 0 ELSE 1)

\* C25: order lifecycle.  Through every call a resting order keeps its price
\* and side, its qty does not grow, and get_order(id) finds it, until
\* cancel(id) succeeds or a match or a crossing add brings its qty to 0; then
\* its block is released (pool_used is lower by 1 for it) and get_order(id)
\* finds nothing.  No other call removes a resting order.
C25_Lifecycle ==
    /\ \A side \in Sides, q \in QtyInputs :
           \E m \in {match(Book, side, q)} :
               Lifecycle(Book, m.book, m.fills, NULL, NULL)
    /\ \A id \in Ids, side \in Sides, px \in PriceInputs, q \in QtyInputs, type \in OrdTypes :
           \E r \in {add(Book, id, side, px, q, type, 0)} :
               Lifecycle(Book, r.book,
                         IF ValidAdd(Book, id, px, q)
                         THEN cross(Book, side, px, q).fills ELSE <<>>,
                         NULL,
                         IF id \notin RestingIds(Book) /\ id \in RestingIds(r.book)
                         THEN id ELSE NULL)
    /\ \A id \in Ids :
           \E r \in {cancel(Book, id)} :
               /\ r.ret <=> id \in RestingIds(Book)
               /\ Lifecycle(Book, r.book, <<>>, IF r.ret THEN id ELSE NULL, NULL)

\* one resting order of quantity 2 is left with 1 by a match, removed by a
\* larger match and removed by its cancel, and from the same book a crossing
\* add fills an order completely and its remainder takes the block
C25_Witness ==
    \E s \in Resting(Book) :
        \E o \in {Book.pool_.storage_[s]} :
            /\ o.qty = 2
            /\ \E m \in {match(Book, Opposite(o.side), 1)} :
                   /\ get_order(m.book, o.id) = s
                   /\ m.book.pool_.storage_[s].qty = 1
            /\ \E m \in {match(Book, Opposite(o.side), 2)} :
                   /\ get_order(m.book, o.id) = NULL
                   /\ pool_used(m.book) = pool_used(Book) - 1
            /\ \E r \in {cancel(Book, o.id)} :
                   /\ r.ret
                   /\ get_order(r.book, o.id) = NULL
                   /\ pool_used(r.book) = pool_used(Book) - 1
            /\ \E s2 \in Resting(Book), id \in Ids \ RestingIds(Book), q \in 1 .. MaxQty :
                   \E o2 \in {Book.pool_.storage_[s2]} :
                       \E r \in {add(Book, id, Opposite(o2.side), o2.price, q, "Limit", 0)} :
                           /\ r.ret = "Ok"
                           /\ get_order(r.book, o2.id) = NULL
                           /\ get_order(r.book, id) = s2

\* the orders of this side resting at price p
RestingAt(b, side, p) == {s \in RestingSide(b, side) : b.pool_.storage_[s].price = p}

\* C26: bid_qty() is the sum of the remaining qty of the Buy orders resting
\* at price bid(), and 0 when no Buy order rests; ask_qty() is the sum of the
\* remaining qty of the Sell orders resting at price ask(), and 0 when no
\* Sell order rests; on a book just constructed bid() = -1,
\* ask() = MaxPrice + 1, both quantities are 0 and order_count() = 0.
C26_BestQty ==
    /\ bid_qty(Book) = SumQty(Book, RestingAt(Book, "Buy", bid(Book)))
    /\ ask_qty(Book) = SumQty(Book, RestingAt(Book, "Sell", ask(Book)))
    /\ RestingSide(Book, "Buy") = {} => bid_qty(Book) = 0
    /\ RestingSide(Book, "Sell") = {} => ask_qty(Book) = 0
    /\ RestingSide(Book, "Buy") # {} => bid_qty(Book) > 0
    /\ RestingSide(Book, "Sell") # {} => ask_qty(Book) > 0
    /\ bid(InitBook) = -1
    /\ ask(InitBook) = MaxPrice + 1
    /\ bid_qty(InitBook) = 0
    /\ ask_qty(InitBook) = 0
    /\ order_count(InitBook) = 0

\* two Buy orders rest at the bid, the first filled in part, and no Sell
\* order rests: bid_qty() is the sum of what is left of the two, ask_qty() 0
C26_Witness ==
    /\ has_bid(Book)
    /\ Len(LevelSeq(Book, bid(Book))) = 2
    /\ QtySeq(Book, bid(Book))[1] < Book.pool_.storage_[LevelSeq(Book, bid(Book))[1]].orig_qty
    /\ bid_qty(Book) = QtySeq(Book, bid(Book))[1] + QtySeq(Book, bid(Book))[2]
    /\ bid_qty(Book) > 2
    /\ ~has_ask(Book)
    /\ ask_qty(Book) = 0

\* the blocks of the free list from block n on, following at most fuel links
RECURSIVE FreeWalk(_, _, _)
FreeWalk(b, n, fuel) ==
    IF n = NULL \/ fuel = 0 THEN <<>>
    ELSE <<n>> \o FreeWalk(b, b.pool_.storage_[n].next, fuel - 1)

\* the free list of the pool, head first
FreeSeq(b) == FreeWalk(b, b.pool_.free_head_, MaxOrders + 1)

\* the book after n Limit Buy orders of quantity 1 at price 0, with the ids
\* 0 .. n - 1, were added to b one after the other
RECURSIVE AddMany(_, _)
AddMany(b, n) ==
    IF n = 0 THEN b
    ELSE add(AddMany(b, n - 1), n - 1, "Buy", 0, 1, "Limit", 0).book

\* C27: arena reuse without leaks.  After any history a valid non-crossing
\* Limit add with a non-resting id returns Ok whenever pool_used() <
\* MaxOrders; every block released by a cancel or a complete fill is
\* available again: pool_used() is the number of resting orders, the free
\* list holds all the other blocks, pool_used() is 0 once no order rests,
\* and MaxOrders orders can then rest together again.
C27_PoolReuse ==
    /\ pool_used(Book) = Cardinality(Resting(Book))
    /\ Len(FreeSeq(Book)) = MaxOrders - pool_used(Book)
    /\ Range(FreeSeq(Book)) = Slots \ Resting(Book)
    /\ pool_used(Book) < MaxOrders =>
           \A id \in Ids, side \in Sides, px \in Prices, q \in 1 .. MaxQty :
               (ValidAdd(Book, id, px, q) /\ ~Crosses(Book, side, px)) =>
                   \E r \in {add(Book, id, side, px, q, "Limit", 0)} :
                       /\ r.ret = "Ok"
                       /\ get_order(r.book, id) # NULL
                       /\ pool_used(r.book) = pool_used(Book) + 1
    /\ Resting(Book) = {} =>
           /\ pool_used(Book) = 0
           /\ pool_used(AddMany(Book, MaxOrders)) = MaxOrders
           /\ order_count(AddMany(Book, MaxOrders)) = MaxOrders

\* no order rests and the free list starts with the last block, which only a
\* release can bring about, and MaxOrders orders come to rest again
C27_Witness ==
    /\ Resting(Book) = {}
    /\ Book.pool_.free_head_ = MaxOrders - 1
    /\ pool_used(Book) = 0
    /\ pool_used(AddMany(Book, MaxOrders)) = MaxOrders

\* C28: match(side, q) on a book whose opposite side is empty (no resting
\* Sell for a Buy aggressor, no resting Buy for a Sell aggressor) returns q
\* and leaves the whole book as it was, the orders of the aggressor's side
\* and both best prices included.
C28_MatchEmptySide ==
    \A side \in Sides, q \in QtyInputs :
        RestingSide(Book, Opposite(side)) = {} =>
            \E m \in {match(Book, side, q)} :
                /\ m.qty = q
                /\ m.fills = <<>>
                /\ m.book = Book
                /\ bid(m.book) = bid(Book)
                /\ ask(m.book) = ask(Book)
                /\ \A p \in Prices : IdQtySeq(m.book, p) = IdQtySeq(Book, p)

\* with Buy orders resting at two prices and no Sell order, a Buy match
\* returns its whole quantity
C28_Witness ==
    /\ Cardinality(PricesOf(Book, "Buy")) = 2
    /\ RestingSide(Book, "Sell") = {}
    /\ match(Book, "Buy", MaxQty).qty = MaxQty
    /\ match(Book, "Buy", MaxQty).book = Book

\* the best price among the orders resting on the side opposite to side
BestOpposing(b, side) ==
    IF side = "Buy" THEN MinOf(PricesOf(b, "Sell")) ELSE MaxOf(PricesOf(b, "Buy"))

\* the executions fills of an aggressor of this side with limit px on book b,
\* b2 being the book left: every execution is against an order resting on
\* the opposite side and has the price of that order and of its level, the
\* first is at the best opposing price, and every opposing order has lost
\* what the executions against it took
AtRestingPrice(b, b2, side, px, fills) ==
    /\ \A k \in DOMAIN fills :
           /\ fills[k].passive_id \in RestingIds(b)
           /\ fills[k].qty > 0
           /\ \E o \in {b.pool_.storage_[SlotById(b, fills[k].passive_id)]} :
                  /\ o.side = Opposite(side)
                  /\ o.price = fills[k].price
                  /\ fills[k].passive_id \in Range(IdSeq(b, fills[k].price))
                  /\ Within(side, px, fills[k].price)
    /\ fills # <<>> => fills[1].price = BestOpposing(b, side)
    /\ \A s \in RestingSide(b, Opposite(side)) :
           \E o \in {b.pool_.storage_[s]} :
               IF o.id \in RestingIds(b2)
               THEN QtyById(b2, o.id) = o.qty - TotalFilled(fills, o.id)
               ELSE TotalFilled(fills, o.id) = o.qty

\* C29: every fill of a match or of a crossing add executes at the price of
\* the resting order's level, not at the aggressor's limit: a Buy add priced
\* above ask() (a Sell add priced below bid()) takes the filled quantity from
\* the order resting at the best opposing level, and every such fill has
\* that level's price.
C29_FillAtRestingPrice ==
    /\ \A side \in Sides, q \in QtyInputs :
           \E m \in {match(Book, side, q)} :
               AtRestingPrice(Book, m.book, side, IF side = "Buy" THEN MaxPrice ELSE 0, m.fills)
    /\ \A id \in Ids, side \in Sides, px \in Prices, q \in 1 .. MaxQty, type \in OrdTypes :
           ValidAdd(Book, id, px, q) =>
               \E m \in {cross(Book, side, px, q)} :
                   /\ AtRestingPrice(Book, add(Book, id, side, px, q, type, 0).book,
                                     side, px, m.fills)
                   /\ Crosses(Book, side, px) =>
                          /\ m.fills # <<>>
                          /\ m.fills[1].price = (IF side = "Buy" THEN ask(Book) ELSE bid(Book))
                          /\ m.fills[1].passive_id =
                                 IdSeq(Book, IF side = "Buy" THEN ask(Book) ELSE bid(Book))[1]

\* a Buy add priced above ask() is filled at ask(), below its own price, and
\* the Sell resting there, of quantity 2, is left with 1
C29_Witness ==
    /\ has_ask(Book)
    /\ ask(Book) < MaxPrice
    /\ QtySeq(Book, ask(Book))[1] = 2
    /\ \E id \in Ids \ RestingIds(Book) :
           \E m \in {cross(Book, "Buy", MaxPrice, 1)} :
               \E r \in {add(Book, id, "Buy", MaxPrice, 1, "Limit", 0)} :
                   /\ m.fills = <<Fill(IdSeq(Book, ask(Book))[1], 1, ask(Book))>>
                   /\ r.ret = "Ok"
                   /\ get_order(r.book, id) = NULL
                   /\ QtySeq(r.book, ask(Book))[1] = 1

\* the best prices of b are the extreme prices of its orders, -1 and
\* MaxPrice + 1 standing for a side without orders
BestAtOrders(b) ==
    /\ bid(b) = (IF PricesOf(b, "Buy") = {} THEN -1 ELSE MaxOf(PricesOf(b, "Buy")))
    /\ ask(b) = (IF PricesOf(b, "Sell") = {} THEN MaxPrice + 1 ELSE MinOf(PricesOf(b, "Sell")))

\* from b to b2 the scans of the best prices, one level a step, made at most
\* MaxPrice + 1 steps each, downwards for the bid and upwards for the ask
ScanBounded(b, b2) ==
    /\ bid(b2) \in (-1) .. MaxPrice
    /\ ask(b2) \in 0 .. (MaxPrice + 1)
    /\ b2.best_bid_ < b.best_bid_ => b.best_bid_ - b2.best_bid_ <= MaxPrice + 1
    /\ b2.best_ask_ > b.best_ask_ => b2.best_ask_ - b.best_ask_ <= MaxPrice + 1

\* the matching loop of an aggressor of this side with quantity q and limit
\* px on book b ended in m: it made at most one iteration per opposing order
\* and per unit of quantity, and it stopped with the quantity exhausted or
\* the opposing best beyond the limit
LoopEnded(b, m, side, px, q) ==
    /\ Len(m.fills) <= Cardinality(RestingSide(b, Opposite(side)))
    /\ q > 0 => Len(m.fills) <= q
    /\ q <= 0 => m.fills = <<>>
    /\ \/ m.qty <= 0
       \/ side = "Buy" /\ ask(m.book) > px
       \/ side = "Sell" /\ bid(m.book) < px
    /\ ScanBounded(b, m.book)
    /\ BestAtOrders(m.book)

\* C30: every add, cancel and match call ends from every reachable state:
\* the matching loop stops when the quantity is exhausted or the opposing
\* best has passed the limit, and the scan of the best price after an
\* emptied level or a cancel at the best makes at most MaxPrice + 1 steps and
\* stops at the next level with orders, or at -1 for the bid and
\* MaxPrice + 1 for the ask when the side is empty.
C30_CallsEnd ==
    /\ \A id \in Ids :
           \E r \in {cancel(Book, id)} :
               /\ r.ret \in BOOLEAN
               /\ ScanBounded(Book, r.book)
               /\ BestAtOrders(r.book)
    /\ \A side \in Sides, q \in QtyInputs :
           \E m \in {match(Book, side, q)} :
               LoopEnded(Book, m, side, IF side = "Buy" THEN MaxPrice ELSE 0, q)
    /\ \A id \in Ids, side \in Sides, px \in PriceInputs, q \in QtyInputs, type \in OrdTypes :
           \E r \in {add(Book, id, side, px, q, type, 0)} :
               /\ r.ret \in {"Ok", "DuplicateId", "InvalidQty", "InvalidPrice", "PoolExhausted"}
               /\ ScanBounded(Book, r.book)
               /\ BestAtOrders(r.book)
               /\ ValidAdd(Book, id, px, q) =>
                      LoopEnded(Book, cross(Book, side, px, q), side, px, q)

\* a single Buy order rests, at MaxPrice: its cancel, and the match that
\* fills it with quantity to spare, both scan the MaxPrice + 1 levels down
\* to -1
C30_Witness ==
    /\ bid(Book) = MaxPrice
    /\ Cardinality(RestingSide(Book, "Buy")) = 1
    /\ \E id \in RestingIds(Book) :
           \E r \in {cancel(Book, id)} :
               r.ret /\ bid(r.book) = -1 /\ bid(Book) - bid(r.book) = MaxPrice + 1
    /\ bid_qty(Book) < MaxQty
    /\ \E m \in {match(Book, "Sell", MaxQty)} :
           /\ Len(m.fills) = 1
           /\ m.qty > 0
           /\ bid(m.book) = -1

\* the slots held by a live order: the blocks in which an order was
\* constructed and not released since
LiveSlots(b) == {s \in Slots : IsOrder(b, s)}

\* the blocks the entries of the index point to
Indexed(b) == {b.order_map_[i] : i \in Slots} \ {NULL}

\* C31: arena exclusivity.  alloc never returns a slot held by a live order;
\* between calls the live slots and the slots of the free list are disjoint
\* and together are exactly the MaxOrders slots, no slot is twice in the free
\* list, and used() is the number of live slots; alloc returns no slot
\* exactly when used() = MaxOrders, and otherwise takes the head of the free
\* list and counts it.
C31_ArenaExclusive ==
    /\ \E a \in {alloc(Book)} :
           /\ a.p = NULL <=> pool_used(Book) = MaxOrders
           /\ a.p = NULL => a.book = Book
           /\ a.p # NULL =>
                  /\ a.p \in Slots \ LiveSlots(Book)
                  /\ a.p = Head(FreeSeq(Book))
                  /\ FreeSeq(a.book) = Tail(FreeSeq(Book))
                  /\ pool_used(a.book) = pool_used(Book) + 1
    /\ LiveSlots(Book) \cap Range(FreeSeq(Book)) = {}
    /\ LiveSlots(Book) \cup Range(FreeSeq(Book)) = Slots
    /\ Len(FreeSeq(Book)) = Cardinality(Range(FreeSeq(Book)))
    /\ pool_used(Book) = Cardinality(LiveSlots(Book))
    /\ LiveSlots(Book) = Resting(Book)
    /\ LiveSlots(Book) = Indexed(Book)
    /\ \A id \in Ids, side \in Sides, px \in Prices, q \in 1 .. MaxQty :
           \E m \in {cross(Book, side, px, q)} :
               \E r \in {add(Book, id, side, px, q, "Limit", 0)} :
                   (r.ret = "Ok" /\ get_order(r.book, id) # NULL) =>
                       /\ get_order(r.book, id) \notin LiveSlots(m.book)
                       /\ LiveSlots(r.book) = LiveSlots(m.book) \cup {get_order(r.book, id)}

\* one order lives in the second block, the first one having been released:
\* alloc returns the first block, and fails when called again
C31_Witness ==
    /\ LiveSlots(Book) = {MaxOrders - 1}
    /\ FreeSeq(Book) = <<0>>
    /\ \E a \in {alloc(Book)} :
           /\ a.p = 0
           /\ pool_used(a.book) = MaxOrders
           /\ alloc(a.book).p = NULL

\* the ids of the entries of the index of b
IndexedIds(b) == {b.pool_.storage_[o].id : o \in Indexed(b)}

\* C32: the failure branch of add after insert_map is never taken.  Whenever
\* lookup(id) found nothing and add came to allocate a block (valid
\* arguments, a Limit order with quantity left after the crossing step) and
\* the allocation succeeded, the index has a vacant slot and no entry with
\* the id, and insert_map places the order and returns true; add returns
\* DuplicateId only from its first check, hence never after having filled a
\* resting order.
C32_InsertNeverFails ==
    \A id \in Ids, side \in Sides, px \in Prices, q \in 1 .. MaxQty :
        /\ lookup(Book, id) = NULL =>
               \E m \in {cross(Book, side, px, q)} :
                   \E a \in {alloc(m.book)} :
                       (m.qty > 0 /\ a.p # NULL) =>
                           /\ id \notin IndexedIds(a.book)
                           /\ \E i \in Slots : a.book.order_map_[i] = NULL
                           /\ \E ins \in {insert_map(
                                  [a.book EXCEPT !.pool_.storage_[a.p] =
                                       NewOrder(id, px, m.qty, side, "Limit", 0)], a.p)} :
                                  /\ ins.ok
                                  /\ Indexed(ins.book) = Indexed(a.book) \cup {a.p}
        /\ \A type \in OrdTypes :
               \E r \in {add(Book, id, side, px, q, type, 0)} :
                   r.ret = "DuplicateId" =>
                       /\ lookup(Book, id) # NULL
                       /\ r.book = Book

\* a Buy fills a resting Sell and rests with what is left, its home slot in
\* the index being taken by another order: insert_map probes on to the slot
\* the filled order left
C32_Witness ==
    \E id \in Ids, px \in Prices, q \in 1 .. MaxQty :
        /\ lookup(Book, id) = NULL
        /\ \E m \in {cross(Book, "Buy", px, q)} :
               /\ m.fills # <<>>
               /\ m.qty > 0
               /\ m.book.order_map_[slot(id)] # NULL
               /\ alloc(m.book).p # NULL
        /\ \E r \in {add(Book, id, "Buy", px, q, "Limit", 0)} :
               /\ r.ret = "Ok"
               /\ get_order(r.book, id) # NULL
               /\ r.book.order_map_[slot(id)] # get_order(r.book, id)

\* the index of b as a table of ids: order_map_[i]->id, or NULL
BookTable(b) ==
    [i \in Slots |-> IF b.order_map_[i] = NULL THEN NULL
                     ELSE b.pool_.storage_[b.order_map_[i]].id]

\* the probe chain of every entry of t is unbroken: all slots from the
\* natural slot of its id up to its current slot, with wrap-around, are
\* occupied
ProbeChain(t) ==
    \A c \in DOMAIN t :
        t[c] # NULL =>
            \A k \in 0 .. ((c - map_slot(t, t[c])) % MapSize(t)) :
                t[(map_slot(t, t[c]) + k) % MapSize(t)] # NULL

\* the number of iterations the rehash loop of remove_map makes from next on
RECURSIVE RehashSteps(_, _)
RehashSteps(t, next) ==
    IF t[next] = NULL THEN 0
    ELSE 1 + RehashSteps(map_insert([t EXCEPT ![next] = NULL], t[next]).map,
                         (next + 1) % MapSize(t))

\* the slot holding id in t
SlotOf(t, id) == CHOOSE i \in DOMAIN t : t[i] = id

\* what remove_map(id) must leave of the table t: the other entries, each
\* with an unbroken probe chain and none twice, with the rehash loop ended
\* within two rounds of the table
RemovedWell(t, id) ==
    \E t2 \in {map_remove(t, id)} :
        /\ DOMAIN t2 = DOMAIN t
        /\ id \notin MapEntries(t2)
        /\ MapEntries(t2) = MapEntries(t) \ {id}
        /\ \A i, j \in DOMAIN t2 : (t2[i] # NULL /\ t2[i] = t2[j]) => i = j
        /\ ProbeChain(t2)
        /\ RehashSteps([t EXCEPT ![SlotOf(t, id)] = NULL],
                       (SlotOf(t, id) + 1) % MapSize(t)) <= 2 * MapSize(t)

\* C33: remove_map ends and keeps the probe chains, in every reachable index
\* of every capacity from 1 to MapSlots, the full index and the clusters
\* that wrap around the array included: after it returns the removed id is
\* absent, the other entries are all there, and for each of them all slots
\* from its natural slot up to its current slot (wrapping) are occupied.  The
\* index of the book is such a table and remove_map acts on it in the same
\* way.
C33_RemoveKeepsChains ==
    /\ ProbeChain(map_)
    /\ \A id \in MapEntries(map_) : RemovedWell(map_, id)
    /\ \A id \in MapIds \ MapEntries(map_) :
           Cardinality(MapEntries(map_)) < MapSize(map_) => map_remove(map_, id) = map_
    /\ ProbeChain(BookTable(Book))
    /\ \A id \in RestingIds(Book) :
           /\ RemovedWell(BookTable(Book), id)
           /\ BookTable(remove_map(Book, id)) = map_remove(BookTable(Book), id)

\* a full index of MapSlots entries in one cluster that wraps around the
\* array (the entry of slot 0 has the last slot for its natural slot), from
\* which the removal of one id moves another entry to a new slot
C33_Witness ==
    /\ MapSize(map_) = MapSlots
    /\ Cardinality(MapEntries(map_)) = MapSlots
    /\ map_slot(map_, map_[0]) = MapSlots - 1
    /\ \E id \in MapEntries(map_) :
           \E t2 \in {map_remove(map_, id)} :
               /\ \E i \in DOMAIN map_ : map_[i] # id /\ t2[i] # map_[i]
               /\ ProbeChain(t2)

\* the first vacant slot of t met from the natural slot of id on, going up
\* with wrap-around
FirstVacant(t, id) ==
    CHOOSE i \in DOMAIN t :
        /\ t[i] = NULL
        /\ \A k \in 0 .. ((i - map_slot(t, id)) % MapSize(t)) - 1 :
               t[(map_slot(t, id) + k) % MapSize(t)] # NULL

\* the reference map of t: the slot of the entry with the id, NULL for an id
\* with no entry
RefLookup(t, id) == IF id \in MapEntries(t) THEN SlotOf(t, id) ELSE NULL

\* the number of entries lookup reads: the one of the natural slot, then
\* those of its probe
RECURSIVE ProbeReads(_, _, _, _)
ProbeReads(t, id, idx, start) ==
    IF idx = start THEN 0
    ELSE IF t[idx] = NULL \/ t[idx] = id THEN 1
    ELSE 1 + ProbeReads(t, id, (idx + 1) % MapSize(t), start)

LookupReads(t, id) ==
    IF t[map_slot(t, id)] # NULL /\ t[map_slot(t, id)] = id THEN 1
    ELSE 1 + ProbeReads(t, id, (map_slot(t, id) + 1) % MapSize(t), map_slot(t, id))

\* C34: the index places a new entry at slot(id) = id mod MaxOrders when
\* that slot is vacant, otherwise at the first vacant slot reached by probing
\* forward with wrap-around, and touches no other entry; lookup(id) agrees
\* with the reference map from the live ids to their entries, although it
\* goes on to the next slot when the natural slot is vacant (it stops at a
\* vacancy met after the first probe, or back at the start slot).  The index
\* of the book and its lookup are such a table.
C34_IndexPlacement ==
    /\ \A id \in MapIds :
           /\ map_lookup(map_, id) = RefLookup(map_, id)
           /\ LookupReads(map_, id) <= MapSize(map_)
           /\ (map_[map_slot(map_, id)] = NULL /\ MapSize(map_) > 1) =>
                  /\ LookupReads(map_, id) >= 2
                  /\ map_lookup(map_, id) = NULL
           /\ (id \notin MapEntries(map_) /\ Cardinality(MapEntries(map_)) < MapSize(map_)) =>
                  \E r \in {map_insert(map_, id)} :
                      /\ r.ok
                      /\ r.map = [map_ EXCEPT ![FirstVacant(map_, id)] = id]
                      /\ map_[map_slot(map_, id)] = NULL => r.map[map_slot(map_, id)] = id
                      /\ map_lookup(r.map, id) = FirstVacant(map_, id)
    /\ \A id \in Ids :
           /\ map_lookup(BookTable(Book), id) = RefLookup(BookTable(Book), id)
           /\ lookup(Book, id) =
                  IF id \in RestingIds(Book) THEN SlotById(Book, id) ELSE NULL
           /\ lookup(Book, id) # NULL =>
                  lookup(Book, id) = Book.order_map_[map_lookup(BookTable(Book), id)]
           /\ \A side \in Sides, px \in Prices, q \in 1 .. MaxQty :
                  \E m \in {cross(Book, side, px, q)} :
                      \E r \in {add(Book, id, side, px, q, "Limit", 0)} :
                          (r.ret = "Ok" /\ lookup(r.book, id) # NULL) =>
                              BookTable(r.book) =
                                  [BookTable(m.book) EXCEPT
                                       ![FirstVacant(BookTable(m.book), id)] = id]

\* an index of MapSlots slots in which lookup of an absent id finds its
\* natural slot vacant and the next one taken, and in which a new id whose
\* natural slot is taken is placed, after a wrap-around, below that slot
C34_Witness ==
    /\ MapSize(map_) = MapSlots
    /\ \E id \in MapIds \ MapEntries(map_) :
           /\ map_[map_slot(map_, id)] = NULL
           /\ map_[(map_slot(map_, id) + 1) % MapSlots] # NULL
           /\ LookupReads(map_, id) = MapSlots
           /\ map_lookup(map_, id) = NULL
    /\ \E id \in MapIds \ MapEntries(map_) :
           /\ map_[map_slot(map_, id)] # NULL
           /\ \E r \in {map_insert(map_, id)} :
                  /\ r.ok
                  /\ FirstVacant(map_, id) < map_slot(map_, id)
                  /\ map_lookup(r.map, id) = FirstVacant(map_, id)

\* the id is free for use again in b: no valid add with it is refused as
\* DuplicateId, and a Limit add that does not cross rests as that of a new id
\* does when the pool has a free block
Reusable(b, id) ==
    \A side \in Sides, px \in Prices, q \in 1 .. MaxQty, type \in OrdTypes :
        \E r \in {add(b, id, side, px, q, type, 0)} :
            /\ r.ret # "DuplicateId"
            /\ (type = "Limit" /\ ~Crosses(b, side, px) /\ pool_used(b) < MaxOrders) =>
                   /\ r.ret = "Ok"
                   /\ RestsAt(b, r.book, id, side, px)
                   /\ QtyById(r.book, id) = q

\* C35: duplicate detection covers the resting orders only.  After a cancel
\* that found the order, after a match or an add that filled a resting order
\* completely, and after a valid add that did not leave its order resting
\* (IOC, Market, or matched in full on entry), a later valid add with the
\* same id is not rejected as DuplicateId and rests as any other.
C35_StaleIdAccepted ==
    /\ \A id \in Ids :
           \E c \in {cancel(Book, id)} : c.ret => Reusable(c.book, id)
    /\ \A side \in Sides, q \in 1 .. MaxQty :
           \E m \in {match(Book, side, q)} :
               \A id \in RestingIds(Book) \ RestingIds(m.book) : Reusable(m.book, id)
    /\ \A id \in Ids, side \in Sides, px \in Prices, q \in 1 .. MaxQty, type \in OrdTypes :
           \E r \in {add(Book, id, side, px, q, type, 0)} :
               /\ (r.ret = "Ok" /\ id \notin RestingIds(r.book)) => Reusable(r.book, id)
               /\ \A id2 \in RestingIds(Book) \ RestingIds(r.book) : Reusable(r.book, id2)

\* an order rests whose id comes to rest again after its cancel, and again
\* after a match filled it completely; an IOC add with another id fills it
\* as well, and both ids can then rest
C35_Witness ==
    \E id \in RestingIds(Book) :
        /\ \E c \in {cancel(Book, id)} :
               /\ c.ret
               /\ get_order(add(c.book, id, "Sell", MaxPrice, 1, "Limit", 0).book, id) # NULL
        /\ \E side \in Sides :
               \E m \in {match(Book, side, MaxQty)} :
                   /\ id \notin RestingIds(m.book)
                   /\ get_order(add(m.book, id, side, 0, 1, "Limit", 0).book, id) # NULL
        /\ \E id2 \in Ids \ {id}, side \in Sides, px \in Prices :
               \E r \in {add(Book, id2, side, px, MaxQty, "IOC", 0)} :
                   /\ r.ret = "Ok"
                   /\ RestingIds(r.book) = RestingIds(Book) \ {id}
                   /\ get_order(add(r.book, id2, side, px, 1, "Limit", 0).book, id2) # NULL
                   /\ get_order(add(r.book, id, side, px, 1, "Limit", 0).book, id) # NULL

\* the side of the book b is in b2 as it was: the same blocks hold its
\* orders, each with every field and both links as before, every level
\* without an order of the other side is as before (sentinel, count and
\* total_qty), and the best price of the side is as before
OwnSideKept(b, b2, side) ==
    /\ RestingSide(b2, side) = RestingSide(b, side)
    /\ \A s \in RestingSide(b, side) : b2.pool_.storage_[s] = b.pool_.storage_[s]
    /\ \A p \in Prices :
           RestingAt(b, Opposite(side), p) = {} =>
               /\ b2.levels_[p] = b.levels_[p]
               /\ IdQtySeq(b2, p) = IdQtySeq(b, p)
    /\ IF side = "Buy" THEN bid(b2) = bid(b) ELSE ask(b2) = ask(b)

\* C36: a match or the crossing step of an add leaves the aggressor's own
\* side alone.  match(Buy, q) and the crossing step of a Buy add leave every
\* resting Buy order (quantity, price, place in its queue), the count and
\* total_qty of every Buy level and bid() as they were; the side changes only
\* when what is left of the order comes to rest, and then by this order only.
\* The same holds for Sell with ask().
C36_OwnSideKept ==
    /\ \A side \in Sides, q \in QtyInputs :
           \E m \in {match(Book, side, q)} : OwnSideKept(Book, m.book, side)
    /\ \A id \in Ids, side \in Sides, px \in Prices, q \in 1 .. MaxQty :
           \E m \in {cross(Book, side, px, q)} :
               /\ OwnSideKept(Book, m.book, side)
               /\ \E r \in {add(Book, id, side, px, q, "IOC", 0)} :
                      r.ret = "Ok" => OwnSideKept(Book, r.book, side)
               /\ \E r \in {add(Book, id, side, px, q, "Limit", 0)} :
                      /\ RestingSide(Book, side) \subseteq RestingSide(r.book, side)
                      /\ Cardinality(RestingSide(r.book, side) \ RestingSide(Book, side)) <= 1
                      /\ \A s \in RestingSide(Book, side) :
                             /\ r.book.pool_.storage_[s].qty = Book.pool_.storage_[s].qty
                             /\ r.book.pool_.storage_[s].price = Book.pool_.storage_[s].price
                             /\ r.book.pool_.storage_[s].prev = Book.pool_.storage_[s].prev

\* a Buy and a Sell rest: a match for Buy fills the Sell and leaves the Buy
\* and bid() as they were, and so does the crossing step of a Buy add that
\* goes on to rest
C36_Witness ==
    /\ RestingSide(Book, "Buy") # {}
    /\ \E m \in {match(Book, "Buy", MaxQty)} :
           /\ m.fills # <<>>
           /\ RestingSide(m.book, "Sell") = {}
           /\ OwnSideKept(Book, m.book, "Buy")
    /\ \E id \in Ids, q \in 1 .. MaxQty :
           /\ cross(Book, "Buy", MaxPrice, q).fills # <<>>
           /\ cross(Book, "Buy", MaxPrice, q).qty > 0
           /\ \E r \in {add(Book, id, "Buy", MaxPrice, q, "Limit", 0)} :
                  /\ r.ret = "Ok"
                  /\ RestingSide(Book, "Buy") \subseteq RestingSide(r.book, "Buy")
                  /\ get_order(r.book, id) \notin RestingSide(Book, "Buy")

\* C37: match(side, q) with q <= 0 returns q and leaves the book as it is,
\* in every state, those in which orders rest on the opposite side included:
\* no order is filled, no level, best price, counter, pool block or index
\* entry changes.
C37_MatchNothing ==
    \A side \in Sides, q \in QtyInputs :
        q <= 0 =>
            \E m \in {match(Book, side, q)} :
                /\ m.qty = q
                /\ m.fills = <<>>
                /\ m.book = Book
                /\ \A id \in Ids : get_order(m.book, id) = get_order(Book, id)

\* orders rest on both sides: a match of quantity 0 or -1 for either side
\* leaves them, where a match of quantity 1 fills
C37_Witness ==
    /\ RestingSide(Book, "Buy") # {}
    /\ RestingSide(Book, "Sell") # {}
    /\ \A side \in Sides :
           /\ match(Book, side, 0).qty = 0
           /\ match(Book, side, -1).qty = -1
           /\ match(Book, side, -1).book = Book
           /\ match(Book, side, 1).fills # <<>>

\* C38: for a valid Limit add that does not cross and returns Ok, a cancel of
\* the id right after it restores all that can be observed: order_count,
\* pool_used, bid, ask, the count, total_qty and FIFO order of every level,
\* the result of get_order for every id, and the slot of every entry of the
\* order index.  In the index, of the book and of the other capacities, the
\* removal of an id just inserted leaves every other entry in the slot it
\* had.
C38_AddCancelRestores ==
    /\ \A id \in Ids, side \in Sides, px \in Prices, q \in 1 .. MaxQty :
           (ValidAdd(Book, id, px, q) /\ ~Crosses(Book, side, px)) =>
               \E r \in {add(Book, id, side, px, q, "Limit", 0)} :
                   r.ret = "Ok" =>
                       \E c \in {cancel(r.book, id)} :
                           /\ c.ret
                           /\ get_order(r.book, id) # NULL
                           /\ SameAggregates(c.book, Book)
                           /\ \A p \in Prices : IdQtySeq(c.book, p) = IdQtySeq(Book, p)
                           /\ \A id2 \in Ids :
                                  /\ get_order(c.book, id2) = get_order(Book, id2)
                                  /\ get_order(Book, id2) # NULL =>
                                         c.book.pool_.storage_[get_order(Book, id2)] =
                                             Book.pool_.storage_[get_order(Book, id2)]
                           /\ c.book.order_map_ = Book.order_map_
                           /\ BookTable(c.book) = BookTable(Book)
                           /\ c.book.levels_ = Book.levels_
    /\ \A id \in MapIds :
           (map_lookup(map_, id) = NULL /\ Cardinality(MapEntries(map_)) < MapSize(map_)) =>
               \E r \in {map_insert(map_, id)} :
                   /\ r.ok
                   /\ map_remove(r.map, id) = map_

\* an index of MapSlots slots in which a new id is placed away from its
\* natural slot and just before the slot of another entry: its removal runs
\* the rehash loop over the entries that follow, and each is back in its slot
C38_Witness ==
    /\ MapSize(map_) = MapSlots
    /\ \E id \in MapIds \ MapEntries(map_) :
           /\ Cardinality(MapEntries(map_)) < MapSlots
           /\ FirstVacant(map_, id) # map_slot(map_, id)
           /\ map_[(FirstVacant(map_, id) + 1) % MapSlots] # NULL
           /\ \E r \in {map_insert(map_, id)} :
                  /\ RehashSteps([r.map EXCEPT ![FirstVacant(map_, id)] = NULL],
                                 (FirstVacant(map_, id) + 1) % MapSlots) >= 2
                  /\ map_remove(r.map, id) = map_

\* the node reached from the sentinel of levels_[p] after the orders of
\* LevelSeq(b, p)
RingEnd(b, p) ==
    IF LevelSeq(b, p) = <<>> THEN front(b, p)
    ELSE NextOf(b, LevelSeq(b, p)[Len(LevelSeq(b, p))])

\* levels_[p] is a circular doubly linked list: following next from the
\* sentinel visits order_cnt orders, none twice, and comes back to the
\* sentinel; prev is the inverse of next on the sentinel and these orders;
\* the count is 0 exactly when the sentinel links to itself
WellFormed(b, p) ==
    /\ Len(LevelSeq(b, p)) = b.levels_[p].order_cnt
    /\ Cardinality(Range(LevelSeq(b, p))) = Len(LevelSeq(b, p))
    /\ RingEnd(b, p) = Sentinel(p)
    /\ \A n \in Range(LevelSeq(b, p)) \cup {Sentinel(p)} :
           /\ PrevOf(b, NextOf(b, n)) = n
           /\ NextOf(b, PrevOf(b, n)) = n
    /\ b.levels_[p].order_cnt = 0 <=> front(b, p) = Sentinel(p)
    /\ b.levels_[p].order_cnt = 0 <=> b.levels_[p].sentinel.prev = Sentinel(p)
    /\ ~empty(b, p) => IsOrder(b, front(b, p))

\* the book after an order with these fields was constructed in the block
\* alloc returns and linked by push_back
Pushed(b, id, side, px, q) ==
    push_back([alloc(b).book EXCEPT !.pool_.storage_[alloc(b).p] =
                   NewOrder(id, px, q, side, "Limit", 0)], px, alloc(b).p)

\* C39: every price level stays a well-formed circular doubly linked list
\* through every push_back and remove: following next from the sentinel
\* visits exactly count orders and returns to the sentinel, prev is the
\* inverse of next, and count = 0 exactly when the sentinel links to itself;
\* so front() of a level that is not empty, which is what the matching loop
\* dereferences, is an order and not the sentinel.
C39_ListsWellFormed ==
    /\ \A p \in Prices : WellFormed(Book, p)
    /\ \A s \in Resting(Book) :
           \E b2 \in {remove(Book, Book.pool_.storage_[s].price, s)} :
               /\ \A p \in Prices : WellFormed(b2, p)
               /\ s \notin Range(LevelSeq(b2, Book.pool_.storage_[s].price))
               /\ b2.pool_.storage_[s].prev = NULL /\ b2.pool_.storage_[s].next = NULL
    /\ alloc(Book).p # NULL =>
           \A id \in Ids, side \in Sides, px \in Prices, q \in 1 .. MaxQty :
               \E b2 \in {Pushed(Book, id, side, px, q)} :
                   /\ \A p \in Prices : WellFormed(b2, p)
                   /\ LevelSeq(b2, px) = Append(LevelSeq(Book, px), alloc(Book).p)
    /\ \A side \in Sides, q \in QtyInputs :
           \E m \in {match(Book, side, q)} :
               /\ \A i \in DOMAIN m.fills : m.fills[i].passive_id \in RestingIds(Book)
               /\ \A p \in Prices : WellFormed(m.book, p)

\* two orders share a level: the removal of either leaves the other as the
\* whole list, and the removal of both the sentinel linked to itself
C39_Witness ==
    \E p \in Prices :
        /\ Len(LevelSeq(Book, p)) = 2
        /\ \E b2 \in {remove(Book, p, LevelSeq(Book, p)[1])} :
               /\ LevelSeq(b2, p) = <<LevelSeq(Book, p)[2]>>
               /\ WellFormed(b2, p)
               /\ front(remove(b2, p, LevelSeq(Book, p)[2]), p) = Sentinel(p)
        /\ \E b2 \in {remove(Book, p, LevelSeq(Book, p)[2])} :
               /\ LevelSeq(b2, p) = <<LevelSeq(Book, p)[1]>>
               /\ WellFormed(b2, p)

\* the values best_bid_ takes while update_best_bid runs on b, and those
\* best_ask_ takes while update_best_ask does: the scan goes on as long as
\* the level read is empty, and is followed here up to the first value that
\* is no index of levels_
RECURSIVE BidTrail(_)
BidTrail(b) ==
    {b.best_bid_} \cup
        (IF b.best_bid_ \in Prices /\ empty(b, b.best_bid_)
         THEN BidTrail([b EXCEPT !.best_bid_ = @ - 1]) ELSE {})

RECURSIVE AskTrail(_)
AskTrail(b) ==
    {b.best_ask_} \cup
        (IF b.best_ask_ \in Prices /\ empty(b, b.best_ask_)
         THEN AskTrail([b EXCEPT !.best_ask_ = @ + 1]) ELSE {})

\* the books met by the loop of match_level on levels_[p]: before it and
\* after each of its iterations
RECURSIVE LevelBooks(_, _)
LevelBooks(m, p) ==
    {m.book} \cup
        (IF m.qty > 0 /\ ~empty(m.book, p) THEN LevelBooks(match_step(m, p), p) ELSE {})

\* the books met by match_internal: before each iteration of its loop, inside
\* match_level, and when the loop has ended
RECURSIVE MatchBooks(_, _, _)
MatchBooks(m, aggressor, limit) ==
    {m.book} \cup
        (IF aggressor = "Buy"
         THEN IF m.qty > 0 /\ m.book.best_ask_ <= limit /\ m.book.best_ask_ <= MaxPrice
              THEN LevelBooks(m, m.book.best_ask_) \cup
                   MatchBooks(advance_ask(match_level(m, m.book.best_ask_), m.book.best_ask_),
                              aggressor, limit)
              ELSE {}
         ELSE IF m.qty > 0 /\ m.book.best_bid_ >= limit /\ m.book.best_bid_ >= 0
              THEN LevelBooks(m, m.book.best_bid_) \cup
                   MatchBooks(advance_bid(match_level(m, m.book.best_bid_), m.book.best_bid_),
                              aggressor, limit)
              ELSE {})

\* the best prices of b are in their ranges, a scan started on b keeps them
\* there and reads levels_ inside the array only, and every index the calls
\* take from b is one of levels_: the price of an order, and the best price
\* of a side that has one
SafeBook(b) ==
    /\ b.best_bid_ \in (-1) .. MaxPrice
    /\ b.best_ask_ \in 0 .. (MaxPrice + 1)
    /\ BidTrail(b) \subseteq (-1) .. MaxPrice
    /\ AskTrail(b) \subseteq 0 .. (MaxPrice + 1)
    /\ \A v \in BidTrail(b) : v >= 0 => v \in Prices
    /\ \A v \in AskTrail(b) : v <= MaxPrice => v \in Prices
    /\ \A s \in Slots : IsOrder(b, s) => b.pool_.storage_[s].price \in Prices
    /\ has_bid(b) => bid(b) \in Prices
    /\ has_ask(b) => ask(b) \in Prices

\* C40: the best prices never leave their ranges and levels_ is never indexed
\* out of bounds.  In every reachable state and at every step inside a scan
\* or a match, -1 <= best_bid_ <= MaxPrice and 0 <= best_ask_ <= MaxPrice + 1,
\* and add, cancel, match, bid_qty and ask_qty read levels_ only at an index
\* in 0 .. MaxPrice: add returns before any read when its price is out of
\* range.
C40_InBounds ==
    /\ SafeBook(Book)
    /\ \A side \in Sides, q \in QtyInputs :
           \A b \in MatchBooks(Matching(Book, q), side, IF side = "Buy" THEN MaxPrice ELSE 0) :
               SafeBook(b)
    /\ \A id \in Ids, side \in Sides, px \in PriceInputs, q \in QtyInputs, type \in OrdTypes :
           /\ px \notin Prices =>
                  \E r \in {add(Book, id, side, px, q, type, 0)} :
                      r.book = Book /\ r.ret # "Ok"
           /\ ValidAdd(Book, id, px, q) =>
                  /\ Crosses(Book, side, px) =>
                         \A b \in MatchBooks(Matching(Book, q), side, px) : SafeBook(b)
                  /\ SafeBook(add(Book, id, side, px, q, type, 0).book)
    /\ \A id \in Ids :
           lookup(Book, id) # NULL =>
               /\ Book.pool_.storage_[lookup(Book, id)].price \in Prices
               /\ SafeBook(remove_from_book(Book, lookup(Book, id)))
               /\ SafeBook(cancel(Book, id).book)

\* the only Sell order rests at price 0: a match for Buy fills it, and the
\* scan that follows takes best_ask_ through every value from 0 to
\* MaxPrice + 1, reading every level of the array
C40_Witness ==
    /\ ask(Book) = 0
    /\ Cardinality(RestingSide(Book, "Sell")) = 1
    /\ \E b \in MatchBooks(Matching(Book, MaxQty), "Buy", MaxPrice) :
           /\ b.best_ask_ = 0
           /\ empty(b, 0)
           /\ AskTrail(b) = 0 .. (MaxPrice + 1)
    /\ ask(match(Book, "Buy", MaxQty).book) = MaxPrice + 1

====
